---- MODULE Spec2Model ----
(***************************************************************************)
(* A model of the emiu2 handheld emulator core: the SST39VF1681 flash      *)
(* command recogniser, the ST2205U banked address space, its interrupt     *)
(* controller and the interrupt entry / RTI path of the 65C02 core.        *)
(*                                                                         *)
(* Rust structs are records, their methods are operators that take the     *)
(* record and return the updated one, and each handler of the program is   *)
(* one action.  Option<T> is modelled as a sequence of length 0 or 1.      *)
(***************************************************************************)
EXTENDS Integers, Sequences, FiniteSets, TLC

VARIABLES
    flash,        \* sst39vf1681::Flash {data, read_mode, command_writes}
    flash_out,    \* the last Flash::read_u8 call and its result (None after a write)
    flash_op,     \* the last Flash::write_u8 call and the branch it took (None at power-on)
    unlock,       \* observer of the bus: how much of the byte-program unlock was just written
    pushes,       \* number of command writes pushed since the last clear (bounds the model)
    cmd_last,     \* the last flash write that ended a command prefix, and the branch it took
    cmd_prev,     \* the one before cmd_last
    mode_over,    \* a write, or a read at another address, has followed cmd_last
    dump,         \* the result of Handheld::make_flash_dump, once the emulator has shut down
    banks,        \* st2205u::bank::State {brr, prr, irr, drr}
    interrupt,    \* st2205u::interrupt::State {ireq, shadow_ireq, iena, interrupted}
    ram,          \* St2205uAddressSpace::ram, at the indices the model tracks
    cpu_acc,      \* the last read_u8/write_u8 of a banked CPU address and where it went
    focus,        \* the bank register the firmware of this behaviour reprograms
    core,         \* wdc_65c02::Core {registers.sp, registers.pc, registers.a, flags}
    ev,           \* the last Mcu::step: its instruction, the state at the dispatch test, the outcome
    armed,        \* sources asserted with their IENA bit set and not dispatched since
    asserted,     \* per source, the number of assert_interrupt calls that found IENA set
    dispatched,   \* per source, the number of dispatches
    frame,        \* between an interrupt entry and the next RTI: what the entry interrupted
    steps,        \* number of Mcu::step calls made (bounds the model)
    irq_op,       \* the last call on the interrupt controller and the state it found
    irq_asserts,  \* number of assert_interrupt calls made by peripherals (bounds the model)
    psg,          \* st2205u::psg::State {psg_states, volumes}
    audio,        \* audio::AudioSender {buffer, clock_of_last_sample}, and the frames sent
    astep,        \* the last Mcu::step with sound: what the timers and the sink reported
    cycles,       \* wdc_65c02::Core::cycles
    btimer,       \* St2205uAddressSpace::base_timer, a base_timer::State
    timer_ticks,  \* st2205u::timer::TimerBlocksState::elapsed_ticks
    cycles_required, \* cycles_required_so_far of the pacing loop of main
    clk_op,       \* what the pacing loop did last
    aborted,      \* the opcode byte on which Core::step panicked, if it did
    stk,          \* the pushes not yet popped, oldest first: their width and value
    stk_op,       \* the last push or pop: its value, the value its push stored, the addresses accessed
    lcd,          \* st7626::Lcd {ext, active_command, byte_since_command, ddram, ddram_ptr, window, display_on, voltage}
    lcd_ev,       \* the last Lcd::write_u8: its arguments, the ddram index stored at, the frames emitted, a panic
    lcd_n,        \* number of Lcd::write_u8 calls made (bounds the model)
    lcd_frames,   \* frames handed to Screen::set_pixels since the last command was accepted
    lcd_plan,     \* the window the firmware of this behaviour fills, if it follows a plan
    boot,         \* main: where it is, the images read, the lines on standard error, the exit code, the steps made
    bt_due,       \* ghost: the base-timer channels that fired, enabled, since their request bit was last cleared
    bt_op,        \* ghost: the last base-timer operation and what update returned
    timer_blocks,       \* St2205uAddressSpace::timer, a TimerBlocksState
    tm_op,        \* ghost: the last timer operation, the timers before it and the mask update returned
    dma,          \* St2205uAddressSpace::dma, a dma::State
    dma_op,       \* ghost: the last DMA register write, the state before it and the transfers it made
    alu_op,       \* ghost: the last ADC or SBC step: its opcode byte, operand and the core and cycles before it
    chan,         \* the sample channel: the AudioSender, the batches in flight, the AudioReceiver
    chan_log,     \* the samples added, the values pop_value returned, the frames the callback still fills
    mul,          \* the Multiplicator of the PSG
    mul_op        \* the last write to MULL or MULH, the operand the MULH writes latched, the build

flashVars ==
    <<flash, flash_out, flash_op, unlock, pushes, cmd_last, cmd_prev, mode_over, dump>>

bankVars == <<banks, interrupt, ram, cpu_acc, focus>>

mcuVars == <<core, ev, armed, asserted, dispatched, frame, steps>>

vars ==
    <<flash, flash_out, flash_op, unlock, pushes, cmd_last, cmd_prev, mode_over, dump,
      banks, interrupt, ram, cpu_acc, focus,
      core, ev, armed, asserted, dispatched, frame, steps, irq_op, irq_asserts,
      psg, audio, astep,
      cycles, btimer, timer_ticks, cycles_required, clk_op, aborted,
      stk, stk_op,
      lcd, lcd_ev, lcd_n, lcd_frames, lcd_plan,
      boot,
      bt_due, bt_op,
      timer_blocks, tm_op,
      dma, dma_op,
      alu_op,
      chan, chan_log,
      mul, mul_op>>

irqVars == <<irq_op, irq_asserts>>

audioVars == <<psg, audio, astep>>

clockVars == <<cycles, btimer, timer_ticks, cycles_required, clk_op, aborted>>

stackVars == <<stk, stk_op>>

lcdVars == <<lcd, lcd_ev, lcd_n, lcd_frames, lcd_plan>>

startVars == <<boot>>

btVars == <<bt_due, bt_op>>

tmVars == <<timer_blocks, tm_op>>

dmaVars == <<dma, dma_op>>

aluVars == <<alu_op>>

chanVars == <<chan, chan_log>>

mulVars == <<mul, mul_op>>

None == <<>>

Some(x) == <<x>>

(***************************************************************************)
(* Bit helpers for unsigned integers.                                      *)
(***************************************************************************)
\* 2^n for n in 0..31, tabulated
Pow2Table == [i \in 1 .. 32 |-> 2 ^ (i - 1)]

Pow2(n) == Pow2Table[n + 1]

Bit(x, n) == (x \div Pow2(n)) % 2

\* AND and OR of two nibbles, tabulated bit by bit
NibbleAnd ==
    [x \in 0 .. 15 |-> [y \in 0 .. 15 |->
        Bit(x, 0) * Bit(y, 0) + 2 * (Bit(x, 1) * Bit(y, 1))
          + 4 * (Bit(x, 2) * Bit(y, 2)) + 8 * (Bit(x, 3) * Bit(y, 3))]]

NibbleOr == [x \in 0 .. 15 |-> [y \in 0 .. 15 |-> x + y - NibbleAnd[x][y]]]

RECURSIVE BitAnd(_, _)
BitAnd(a, b) ==
    IF a = 0 \/ b = 0 THEN 0
    ELSE NibbleAnd[a % 16][b % 16] + 16 * BitAnd(a \div 16, b \div 16)

RECURSIVE BitOr(_, _)
BitOr(a, b) ==
    IF a = 0 THEN b
    ELSE IF b = 0 THEN a
    ELSE NibbleOr[a % 16][b % 16] + 16 * BitOr(a \div 16, b \div 16)

\* x | (1 << n), x & !(1 << n) and x & (1 << n) != 0 on unsigned integers
SetBit(x, n) == IF Bit(x, n) = 1 THEN x ELSE x + Pow2(n)

ClearBit(x, n) == IF Bit(x, n) = 1 THEN x - Pow2(n) ELSE x

TestBit(x, n) == Bit(x, n) = 1

Not8(a) == 255 - a

Not16(a) == 65535 - a

(***************************************************************************)
(* sst39vf1681/flash.rs                                                    *)
(***************************************************************************)
CHIP_CAPACITY == 2097152

SECTOR_SIZE == 4096

BLOCK_SIZE == 65536

RINGBUF_N == 6

CommandWrite(a, v) == [address |-> a, value |-> v]

BYTE_PROGRAM ==
    << CommandWrite(2730, 170), CommandWrite(1365, 85), CommandWrite(2730, 160) >>

ERASE ==
    << CommandWrite(2730, 170), CommandWrite(1365, 85), CommandWrite(2730, 128),
       CommandWrite(2730, 170), CommandWrite(1365, 85) >>

\* The flash offsets whose bytes the model tracks: the 2 MiB array is sampled at
\* 0x100 (sector 0) and 0x1100 (sector 1).
FlashCells == {256, 4352}

\* The byte every tracked offset holds in the flash image the emulator was given.
FlashImageByte == 60

\* RingBuf::new
RingBuf_new == [data |-> [i \in 0 .. RINGBUF_N - 1 |-> None], index |-> 0]

\* RingBuf::push
RingBuf_push(rb, w) ==
    [data |-> [rb.data EXCEPT ![rb.index] = Some(w)],
     index |-> (rb.index + 1) % RINGBUF_N]

\* clear leaving the entries in place
RingBuf_clear_none(rb) == rb

\* RingBuf::clear
RingBuf_clear(rb) == RingBuf_new

\* RingBuf::get_from_back
get_from_back(rb, n0) ==
    LET n == n0 % RINGBUF_N
        prev_buf_index == (rb.index + RINGBUF_N - 1) % RINGBUF_N
        index == (RINGBUF_N - n + prev_buf_index) % RINGBUF_N
    IN  rb.data[index]

\* RingBuf::ends_with: other is matched back to front against the newest entries
ends_with(rb, other) ==
    IF Len(other) >= RINGBUF_N THEN FALSE
    ELSE \A i \in 0 .. Len(other) - 1 :
            get_from_back(rb, i) = Some(other[Len(other) - i])

\* Flash::new
Flash_new ==
    [data |-> [c \in FlashCells |-> FlashImageByte],
     read_mode |-> [mode |-> "Data"],
     command_writes |-> RingBuf_new]

\* sector_erase leaving the bytes cleared instead of set
sector_erase_zero(data, sector) ==
    [c \in DOMAIN data |->
        IF \E i \in {c - sector * SECTOR_SIZE} :
              i >= 0 /\ i < SECTOR_SIZE /\ (sector * SECTOR_SIZE + i) % CHIP_CAPACITY = c
        THEN 0 ELSE data[c]]

\* Flash::sector_erase
sector_erase(data, sector) ==
    [c \in DOMAIN data |->
        IF \E i \in {c - sector * SECTOR_SIZE} :
              i >= 0 /\ i < SECTOR_SIZE /\ (sector * SECTOR_SIZE + i) % CHIP_CAPACITY = c
        THEN 255 ELSE data[c]]

\* Flash::block_erase
block_erase(data, block) ==
    [c \in DOMAIN data |->
        IF \E i \in {c - block * BLOCK_SIZE} :
              i >= 0 /\ i < BLOCK_SIZE /\ (block * BLOCK_SIZE + i) % CHIP_CAPACITY = c
        THEN 255 ELSE data[c]]

\* Flash::chip_erase
chip_erase(data) == [c \in DOMAIN data |-> 255]

\* byte_program as NOR hardware does it: programming can only clear bits
byte_program_and(data, address, value) ==
    [c \in DOMAIN data |->
        IF c = address % CHIP_CAPACITY THEN BitAnd(data[c], value) ELSE data[c]]

\* Flash::byte_program
byte_program(data, address, value) ==
    [c \in DOMAIN data |-> IF c = address % CHIP_CAPACITY THEN value ELSE data[c]]

\* Flash::status_register
status_register == 192

\* self.data[address % self.data.len()], for the offsets the model tracks
FlashByte(data, address) == data[address % CHIP_CAPACITY]

\* read_u8 without the comparison of the address with the keyed one
Flash_read_u8_any(fl, address) ==
    IF fl.read_mode.mode = "Status" THEN status_register
    ELSE FlashByte(fl.data, address)

\* <Flash as AddressSpace>::read_u8 (it takes &mut self and changes nothing)
Flash_read_u8(fl, address) ==
    IF fl.read_mode.mode = "Status" /\ address = fl.read_mode.address
    THEN status_register
    ELSE FlashByte(fl.data, address)

\* the branch <Flash as AddressSpace>::write_u8 takes for a write
Flash_branch(fl, address, value) ==
    IF ends_with(fl.command_writes, ERASE) THEN
        IF value = 80 THEN "sector_erase"
        ELSE IF value = 48 THEN "block_erase"
        ELSE IF address = 2730 /\ value = 16 THEN "chip_erase"
        ELSE "invalid_erase"
    ELSE IF ends_with(fl.command_writes, BYTE_PROGRAM) THEN "byte_program"
    ELSE "push"

\* <Flash as AddressSpace>::write_u8
Flash_write_u8(fl, address, value) ==
    LET branch == Flash_branch(fl, address, value)
        command_handled == branch # "push"
        data1 ==
            CASE branch = "sector_erase" -> sector_erase(fl.data, address \div SECTOR_SIZE)
              [] branch = "block_erase" -> block_erase(fl.data, address \div BLOCK_SIZE)
              [] branch = "chip_erase" -> chip_erase(fl.data)
              [] branch = "byte_program" -> byte_program(fl.data, address, value)
              [] OTHER -> fl.data
    IN  IF command_handled
        THEN [data |-> data1,
              read_mode |-> [mode |-> "Status", address |-> address],
              command_writes |-> RingBuf_clear(fl.command_writes)]
        ELSE [data |-> data1,
              read_mode |-> fl.read_mode,
              command_writes |-> RingBuf_push(fl.command_writes, CommandWrite(address, value))]

\* whether the next write completes a command (and so clears the history)
Handles(fl) ==
    ends_with(fl.command_writes, ERASE) \/ ends_with(fl.command_writes, BYTE_PROGRAM)

(***************************************************************************)
(* st2205u/reg.rs                                                          *)
(***************************************************************************)
\* U8Register::set followed by apply_mask
U8_set(mask, value) == BitAnd(value, mask)

\* U16Register::new: the masks are set, then set_u16 stores the masked value
U16Register_new(value, mask) ==
    [l |-> U8_set(mask % 256, value % 256),
     h |-> U8_set(mask \div 256, value \div 256),
     l_mask |-> mask % 256,
     h_mask |-> mask \div 256]

\* U16Register::u16
U16_u16(r) == r.l + r.h * 256

\* U16Register::set_l
U16_set_l(r, value) == [r EXCEPT !.l = U8_set(r.l_mask, value)]

\* U16Register::set_h
U16_set_h(r, value) == [r EXCEPT !.h = U8_set(r.h_mask, value)]

\* U16Register::set_u16
U16_set_u16(r, value) ==
    [r EXCEPT !.l = U8_set(r.l_mask, value % 256),
              !.h = U8_set(r.h_mask, (value \div 256) % 256)]

\* U16Register::mask_u16
U16_mask_u16(r) == BitOr(r.l_mask, r.h_mask * 256)

(***************************************************************************)
(* st2205u/bank.rs                                                         *)
(***************************************************************************)
\* bank::State::new
Bank_new ==
    [brr |-> U16Register_new(32768, 40959),
     prr |-> U16Register_new(0, 36863),
     irr |-> U16Register_new(0, 36863),
     drr |-> U16Register_new(0, 34815)]

\* read_brrl, read_prrl, read_irrl, read_drrl: the unused bits read as 1
Bank_read_l(r) == BitOr(r.l, Not8(r.l_mask))

\* read_brrh, read_prrh, read_irrh, read_drrh
Bank_read_h(r) == BitOr(r.h, Not8(r.h_mask))

\* the stored bits alone, without the bits that read as 1
Bank_reg_stored(r) == BitOr(r.l, r.h * 256)

\* bank::brr, bank::prr, bank::irr, bank::drr
Bank_reg(r) == BitOr(Bank_read_l(r), Bank_read_h(r) * 256)

(***************************************************************************)
(* st2205u/interrupt.rs                                                    *)
(***************************************************************************)
Interrupts ==
    { "Intx", "Timer0", "Timer1", "Timer2", "Timer3", "PortATransition", "BaseTimer",
      "LcdBuffer", "SpiTxEmpty", "SpiRxReady", "UartTx", "UartRx", "Usb", "Pcm", "Rtc" }

\* interrupt::State::new
Interrupt_new ==
    [ireq |-> U16Register_new(0, 57343),
     shadow_ireq |-> U16Register_new(0, 57343),
     iena |-> U16Register_new(0, 57343),
     interrupted |-> FALSE]

\* the match of assert_interrupt
assert_bit(irq) ==
    CASE irq = "Intx" -> 0 [] irq = "Timer0" -> 1 [] irq = "Timer1" -> 2
      [] irq = "Timer2" -> 3 [] irq = "Timer3" -> 4 [] irq = "PortATransition" -> 5
      [] irq = "BaseTimer" -> 6 [] irq = "LcdBuffer" -> 7 [] irq = "SpiTxEmpty" -> 8
      [] irq = "SpiRxReady" -> 9 [] irq = "UartTx" -> 10 [] irq = "UartRx" -> 11
      [] irq = "Usb" -> 12 [] irq = "Pcm" -> 14 [] irq = "Rtc" -> 15

\* the match of clear_interrupt_request
clear_bit(irq) ==
    CASE irq = "Intx" -> 0 [] irq = "Timer0" -> 1 [] irq = "Timer1" -> 2
      [] irq = "Timer2" -> 3 [] irq = "Timer3" -> 4 [] irq = "PortATransition" -> 5
      [] irq = "BaseTimer" -> 6 [] irq = "LcdBuffer" -> 7 [] irq = "SpiTxEmpty" -> 8
      [] irq = "SpiRxReady" -> 9 [] irq = "UartTx" -> 10 [] irq = "UartRx" -> 11
      [] irq = "Usb" -> 12 [] irq = "Pcm" -> 14 [] irq = "Rtc" -> 15

\* the match of highest_priority_interrupt (bit 13 is unreachable!() there)
irq_of_bit(i) ==
    CASE i = 0 -> "Intx" [] i = 1 -> "Timer0" [] i = 2 -> "Timer1" [] i = 3 -> "Timer2"
      [] i = 4 -> "Timer3" [] i = 5 -> "PortATransition" [] i = 6 -> "BaseTimer"
      [] i = 7 -> "LcdBuffer" [] i = 8 -> "SpiTxEmpty" [] i = 9 -> "SpiRxReady"
      [] i = 10 -> "UartTx" [] i = 11 -> "UartRx" [] i = 12 -> "Usb"
      [] i = 14 -> "Pcm" [] i = 15 -> "Rtc"

\* assert_interrupt with the IENA test dropped
assert_interrupt_unmasked(st, irq) ==
    [st EXCEPT !.ireq = U16_set_u16(st.ireq, SetBit(U16_u16(st.ireq), assert_bit(irq))),
               !.shadow_ireq =
                   U16_set_u16(st.shadow_ireq,
                               SetBit(U16_u16(st.shadow_ireq), assert_bit(irq)))]

\* State::assert_interrupt
assert_interrupt(st, irq) ==
    IF TestBit(U16_u16(st.iena), assert_bit(irq))
    THEN [st EXCEPT !.ireq = U16_set_u16(st.ireq, SetBit(U16_u16(st.ireq), assert_bit(irq))),
                    !.shadow_ireq =
                        U16_set_u16(st.shadow_ireq,
                                    SetBit(U16_u16(st.shadow_ireq), assert_bit(irq)))]
    ELSE st

\* the loop of highest_priority_interrupt run from bit 15 down
RECURSIVE last_set_bit(_, _)
last_set_bit(shadow, i) ==
    IF i < 0 THEN None
    ELSE IF TestBit(shadow, i) THEN Some(irq_of_bit(i))
    ELSE last_set_bit(shadow, i - 1)

highest_priority_interrupt_rev(st) == last_set_bit(U16_u16(st.shadow_ireq), 15)

\* the loop `for i in 0..16` of highest_priority_interrupt; rest is shadow >> i
RECURSIVE first_set_bit(_, _)
first_set_bit(rest, i) ==
    IF i >= 16 THEN None
    ELSE IF rest % 2 = 1 THEN Some(irq_of_bit(i))
    ELSE first_set_bit(rest \div 2, i + 1)

\* State::highest_priority_interrupt
highest_priority_interrupt(st) == first_set_bit(U16_u16(st.shadow_ireq), 0)

\* clear_interrupt_request acknowledging in the visible IREQ instead of the shadow
clear_interrupt_request_visible(st, irq) ==
    [st EXCEPT !.ireq = U16_set_u16(st.ireq, ClearBit(U16_u16(st.ireq), clear_bit(irq)))]

\* State::clear_interrupt_request
clear_interrupt_request(st, irq) ==
    [st EXCEPT !.shadow_ireq =
        U16_set_u16(st.shadow_ireq, ClearBit(U16_u16(st.shadow_ireq), clear_bit(irq)))]

\* <State as HandlesInterrupt>::set_interrupted
set_interrupted(st, b) == [st EXCEPT !.interrupted = b]

\* read_ireql, read_ireqh, read_ienal, read_ienah
read_ireql(st) == st.ireq.l

read_ireqh(st) == st.ireq.h

read_ienal(st) == st.iena.l

read_ienah(st) == st.iena.h

\* write_ireql as a plain store of the written byte
write_ireql_store(st, value) == [st EXCEPT !.ireq = U16_set_l(st.ireq, value)]

\* write_ireql: bits written as 0 clear the request, bits written as 1 do nothing
write_ireql(st, value) == [st EXCEPT !.ireq = U16_set_l(st.ireq, BitAnd(st.ireq.l, value))]

\* write_ireqh
write_ireqh(st, value) == [st EXCEPT !.ireq = U16_set_h(st.ireq, BitAnd(st.ireq.h, value))]

\* write_ienal dropping the latched requests of the sources it disables
write_ienal_masking(st, value) ==
    [st EXCEPT !.iena = U16_set_l(st.iena, value),
               !.shadow_ireq = U16_set_l(st.shadow_ireq, BitAnd(st.shadow_ireq.l, value))]

\* write_ienal
write_ienal(st, value) == [st EXCEPT !.iena = U16_set_l(st.iena, value)]

\* write_ienah
write_ienah(st, value) == [st EXCEPT !.iena = U16_set_h(st.iena, value)]

(***************************************************************************)
(* st2205u/addr_space.rs                                                   *)
(***************************************************************************)
RAM_LEN == 32768

BRR_BITS == 13

PRR_BITS == 14

DRR_BITS == 15

\* bank_start
bank_start(bits) == Pow2(bits)

\* bank_end
bank_end(bits) == Pow2(bits + 1) - 1

\* `address as u16`
AsU16(address) == address % 65536

InWindow(address, bits) ==
    AsU16(address) >= bank_start(bits) /\ AsU16(address) <= bank_end(bits)

\* the inner match of write_u8 with the interrupted test dropped: PRR always
BankSelect_no_irr(bk, intr, address) ==
    IF InWindow(address, BRR_BITS) THEN [reg |-> Bank_reg(bk.brr), left_shift |-> BRR_BITS]
    ELSE IF InWindow(address, PRR_BITS) THEN [reg |-> Bank_reg(bk.prr), left_shift |-> PRR_BITS]
    ELSE [reg |-> Bank_reg(bk.drr), left_shift |-> DRR_BITS]

\* the inner match of read_u8: the (reg, left_shift) pair of a banked address
BankSelect_read(bk, intr, address) ==
    IF InWindow(address, BRR_BITS) THEN [reg |-> Bank_reg(bk.brr), left_shift |-> BRR_BITS]
    ELSE IF InWindow(address, PRR_BITS) THEN
        IF intr.interrupted
        THEN [reg |-> Bank_reg(bk.irr), left_shift |-> PRR_BITS]
        ELSE [reg |-> Bank_reg(bk.prr), left_shift |-> PRR_BITS]
    ELSE [reg |-> Bank_reg(bk.drr), left_shift |-> DRR_BITS]

\* the inner match of write_u8
BankSelect_write(bk, intr, address) ==
    IF InWindow(address, BRR_BITS) THEN [reg |-> Bank_reg(bk.brr), left_shift |-> BRR_BITS]
    ELSE IF InWindow(address, PRR_BITS) THEN
        IF intr.interrupted
        THEN [reg |-> Bank_reg(bk.irr), left_shift |-> PRR_BITS]
        ELSE [reg |-> Bank_reg(bk.prr), left_shift |-> PRR_BITS]
    ELSE [reg |-> Bank_reg(bk.drr), left_shift |-> DRR_BITS]

\* the banked arm of read_u8/write_u8 once (reg, left_shift) is chosen: on-chip RAM
\* when bit 15 of reg is set, the machine address space otherwise
BankTarget(sel, address) ==
    IF BitAnd(sel.reg, Pow2(15)) # 0
    THEN [kind |-> "ram", at |-> address % RAM_LEN]
    ELSE LET addr_mask == Pow2(sel.left_shift) - 1
         IN  [kind |-> "machine",
              at |-> BitOr(sel.reg * Pow2(sel.left_shift), BitAnd(address, addr_mask))]

\* where St2205uAddressSpace::read_u8 takes an address
AS_read_target(bk, intr, address) ==
    IF AsU16(address) <= 127 THEN [kind |-> "register", at |-> AsU16(address)]
    ELSE IF AsU16(address) <= 8191 THEN [kind |-> "ram", at |-> address % RAM_LEN]
    ELSE BankTarget(BankSelect_read(bk, intr, address), address)

\* where St2205uAddressSpace::write_u8 takes an address
AS_write_target(bk, intr, address) ==
    IF AsU16(address) <= 127 THEN [kind |-> "register", at |-> AsU16(address)]
    ELSE IF AsU16(address) <= 8191 THEN [kind |-> "ram", at |-> address % RAM_LEN]
    ELSE BankTarget(BankSelect_write(bk, intr, address), address)

(***************************************************************************)
(* miuchiz/handheld.rs                                                     *)
(***************************************************************************)
\* AddressType::parse_machine_addr
parse_machine_addr(address) ==
    LET selection_bits == (address \div Pow2(21)) % 32
        address_bits == address % Pow2(21)
    IN  [addr_type |-> IF selection_bits = 3 THEN "Video"
                       ELSE IF selection_bits \in {0, 31} THEN "Otp"
                       ELSE "Flash",
         offset |-> address_bits]

(***************************************************************************)
(* st2205u/vector.rs and the interrupt registers of st2205u/addr_space.rs  *)
(***************************************************************************)
vector_RESET == 32764

vector_INTX == 32760

vector_T0 == 32758

vector_T1 == 32756

vector_T2 == 32754

vector_T3 == 32752

vector_PT == 32750

vector_BT == 32748

vector_LCD == 32746

vector_STX == 32744

vector_SRX == 32742

vector_UTX == 32740

vector_URX == 32738

vector_USB == 32736

vector_PCM == 32732

vector_RTC == 32730

IREQL == 60

IREQH == 61

IENAL == 62

IENAH == 63

OTP_SIZE == 16384

\* the arms of write_register for IREQL..IENAH; the other registers leave the
\* interrupt state alone
write_interrupt_register(st, address, value) ==
    CASE address = IREQL -> write_ireql(st, value)
      [] address = IREQH -> write_ireqh(st, value)
      [] address = IENAL -> write_ienal(st, value)
      [] address = IENAH -> write_ienah(st, value)
      [] OTHER -> st

\* the arms of read_register for IREQL..IENAH
read_interrupt_register(st, address) ==
    CASE address = IREQL -> read_ireql(st)
      [] address = IREQH -> read_ireqh(st)
      [] address = IENAL -> read_ienal(st)
      [] address = IENAH -> read_ienah(st)

(***************************************************************************)
(* The machine as the CPU core sees it: m = [core, irq, ram, banks].       *)
(* The OTP holds the firmware; its vector table gives every vector a       *)
(* handler address of its own, with different low and high bytes.          *)
(***************************************************************************)
OtpImage(offset) ==
    LET word == 16384 + 16 * ((offset \div 2) % 64)
    IN  IF offset % 2 = 0 THEN word % 256 ELSE word \div 256

\* HandheldAddressSpace::read_u8, for the OTP
Machine_read_u8(address) ==
    LET parsed == parse_machine_addr(address)
    IN  CASE parsed.addr_type = "Otp" -> OtpImage(parsed.offset % OTP_SIZE)

\* read_ram / write_ram on the tracked cells
RamRead(r, at) == IF at \in DOMAIN r THEN r[at] ELSE 0

RamWrite(r, at, value) == IF at \in DOMAIN r THEN [r EXCEPT ![at] = value] ELSE r

\* St2205uAddressSpace::read_u8
AS_read_u8(m, address) ==
    LET read_at(t) ==
            CASE t.kind = "register" -> read_interrupt_register(m.irq, t.at)
              [] t.kind = "ram" -> RamRead(m.ram, t.at)
              [] t.kind = "machine" -> Machine_read_u8(t.at)
    IN  read_at(AS_read_target(m.banks, m.irq, address))

\* St2205uAddressSpace::write_u8 (a write that reaches the OTP is dropped)
AS_write_u8(m, address, value) ==
    LET write_at(t) ==
            CASE t.kind = "register" ->
                    [m EXCEPT !.irq = write_interrupt_register(m.irq, t.at, value)]
              [] t.kind = "ram" -> [m EXCEPT !.ram = RamWrite(m.ram, t.at, value)]
              [] t.kind = "machine" -> m
    IN  write_at(AS_write_target(m.banks, m.irq, address))

\* AddressSpace::read_u16_le
read_u16_le(m, address) ==
    AS_read_u8(m, address) + AS_read_u8(m, address + 1) * 256

(***************************************************************************)
(* st2205u/dma.rs: s = [m, dma], the address space with its DMA registers  *)
(***************************************************************************)
\* dma::State::new
Dma_new ==
    [src_dptr |-> U16Register_new(0, 32767), dest_dptr |-> U16Register_new(0, 32767),
     src_dbkr |-> U16Register_new(0, 34815), dest_dbkr |-> U16Register_new(0, 34815),
     dcnt |-> U16Register_new(0, 32767), dsel |-> U8_set(3, 0), dmod |-> U8_set(63, 0)]

\* State::get_ptr_selection
get_ptr_selection(d) == IF d.dsel % 2 = 0 THEN "Source" ELSE "Destination"

\* get_mode taking 0b01 for a fixed pointer
get_mode_reload_fixed(mode_bits) == IF mode_bits = 0 THEN "Continue" ELSE "Fixed"

\* State::get_mode
get_mode(mode_bits) ==
    CASE mode_bits = 0 -> "Continue" [] mode_bits = 1 -> "Reload" [] OTHER -> "Fixed"

\* State::get_src_mode
get_src_mode(d) == get_mode(d.dmod % 4)

\* State::get_dest_mode
get_dest_mode(d) == get_mode((d.dmod \div 4) % 4)

\* write_dptrl, write_dptrh, write_dbkrl, write_dbkrh, write_dcntl, write_dsel, write_dmod
write_dma_register(d, reg, val) ==
    LET source == get_ptr_selection(d) = "Source"
    IN  CASE reg = "DPTRL" -> IF source THEN [d EXCEPT !.src_dptr = U16_set_l(@, val)]
                              ELSE [d EXCEPT !.dest_dptr = U16_set_l(@, val)]
          [] reg = "DPTRH" -> IF source THEN [d EXCEPT !.src_dptr = U16_set_h(@, val)]
                              ELSE [d EXCEPT !.dest_dptr = U16_set_h(@, val)]
          [] reg = "DBKRL" -> IF source THEN [d EXCEPT !.src_dbkr = U16_set_l(@, val)]
                              ELSE [d EXCEPT !.dest_dbkr = U16_set_l(@, val)]
          [] reg = "DBKRH" -> IF source THEN [d EXCEPT !.src_dbkr = U16_set_h(@, val)]
                              ELSE [d EXCEPT !.dest_dbkr = U16_set_h(@, val)]
          [] reg = "DCNTL" -> [d EXCEPT !.dcnt = U16_set_l(@, val)]
          [] reg = "DSEL" -> [d EXCEPT !.dsel = U8_set(3, val)]
          [] reg = "DMOD" -> [d EXCEPT !.dmod = U8_set(63, val)]

\* the body of the loop of execute_dma: one byte moved, the pointers advanced
dma_transfer(s) ==
    LET src_ptr == BitOr(U16_u16(s.dma.src_dptr), 32768)
        dest_ptr == BitOr(U16_u16(s.dma.dest_dptr), 32768)
        at_src == [s.m EXCEPT !.banks.drr = s.dma.src_dbkr]
        src_byte == AS_read_u8(at_src, src_ptr)
        at_dest == [s.m EXCEPT !.banks.drr = s.dma.dest_dbkr]
        written == AS_write_u8(at_dest, dest_ptr, src_byte)
        src_next == IF get_src_mode(s.dma) \in {"Continue", "Reload"}
                    THEN U16_set_u16(s.dma.src_dptr, (src_ptr + 1) % 65536)
                    ELSE s.dma.src_dptr
        dest_next == IF get_dest_mode(s.dma) \in {"Continue", "Reload"}
                     THEN U16_set_u16(s.dma.dest_dptr, (dest_ptr + 1) % 65536)
                     ELSE s.dma.dest_dptr
    IN  [s |-> [m |-> written,
                dma |-> [s.dma EXCEPT !.src_dptr = src_next, !.dest_dptr = dest_next]],
         moved |-> [src_drr |-> Bank_reg_stored(at_src.banks.drr), src |-> src_ptr,
                    byte |-> src_byte,
                    dest_drr |-> Bank_reg_stored(at_dest.banks.drr), dest |-> dest_ptr]]

\* `for _ in 0..dcnt.u16()`: the iterations left, and the transfers made so far
RECURSIVE dma_loop(_, _, _)
dma_loop(s, left, log) ==
    IF left = 0 THEN [s |-> s, log |-> log]
    ELSE LET step(r) == dma_loop(r.s, left - 1, Append(log, r.moved))
         IN  step(dma_transfer(s))

\* execute_dma leaving DRR at the destination bank
execute_dma_keep_drr(s) ==
    LET done(r) ==
            [s |-> [r.s EXCEPT
                       !.dma.src_dptr = IF get_src_mode(s.dma) = "Reload"
                                        THEN s.dma.src_dptr ELSE @,
                       !.dma.dest_dptr = IF get_dest_mode(s.dma) = "Reload"
                                         THEN s.dma.dest_dptr ELSE @],
             log |-> r.log]
    IN  done(dma_loop(s, U16_u16(s.dma.dcnt), <<>>))

\* execute_dma
execute_dma(s) ==
    LET done(r) ==
            [s |-> [r.s EXCEPT
                       !.dma.src_dptr = IF get_src_mode(r.s.dma) = "Reload"
                                        THEN s.dma.src_dptr ELSE @,
                       !.dma.dest_dptr = IF get_dest_mode(r.s.dma) = "Reload"
                                         THEN s.dma.dest_dptr ELSE @,
                       !.m.banks.drr = s.m.banks.drr],
             log |-> r.log]
    IN  done(dma_loop(s, U16_u16(s.dma.dcnt), <<>>))

\* write_dcnth
write_dcnth(s, val) == execute_dma([s EXCEPT !.dma.dcnt = U16_set_h(@, val)])

(***************************************************************************)
(* st2205u/wdc_65c02/core.rs                                               *)
(***************************************************************************)
\* Flags::default
Flags_default ==
    [carry |-> FALSE, zero |-> FALSE, interrupt_disable |-> FALSE,
     decimal |-> FALSE, overflow |-> FALSE, negative |-> FALSE]

B2N(b) == IF b THEN 1 ELSE 0

\* Flags::to_u8
Flags_to_u8(f) ==
    ((((((B2N(f.negative) * 2 + B2N(f.overflow)) * 2 + 0) * 2 + 0) * 2
        + B2N(f.decimal)) * 2 + B2N(f.interrupt_disable)) * 2 + B2N(f.zero)) * 2
      + B2N(f.carry)

\* Flags::from_u8
Flags_from_u8(val) ==
    [negative |-> TestBit(val, 7),
     overflow |-> TestBit(val, 6),
     decimal |-> TestBit(val, 3),
     interrupt_disable |-> TestBit(val, 2),
     zero |-> TestBit(val, 1),
     carry |-> TestBit(val, 0)]

\* Core::new (x and y are not used by the instructions modelled)
Core_new == [sp |-> 0, pc |-> 0, a |-> 0, flags |-> Flags_default]

\* Registers::full_sp
full_sp(c) == c.sp + 256

\* Core::push_u8
push_u8(m, val) ==
    LET m1 == AS_write_u8(m, full_sp(m.core), val)
    IN  [m1 EXCEPT !.core.sp = (m.core.sp + 255) % 256]

\* Core::pop_u8: the machine after the pop and the byte popped
pop_u8(m) ==
    LET m1 == [m EXCEPT !.core.sp = (m.core.sp + 1) % 256]
    IN  [m |-> m1, val |-> AS_read_u8(m1, full_sp(m1.core))]

\* push_u16 pushing the low byte first
push_u16_low_first(m, val) ==
    push_u8(push_u8(m, val % 256), (val \div 256) % 256)

\* Core::push_u16
push_u16(m, val) ==
    push_u8(push_u8(m, (val \div 256) % 256), val % 256)

\* Core::pop_u16
pop_u16(m) ==
    LET second(low) ==
            LET joined(high) == [m |-> high.m, val |-> low.val + high.val * 256]
            IN  joined(pop_u8(low.m))
    IN  second(pop_u8(m))

(***************************************************************************)
(* st2205u/wdc_65c02/instr.rs and addr_mode.rs                             *)
(***************************************************************************)
is_negative(val) == TestBit(val, 7)

\* Instruction::encoded_length
encoded_length(ins) ==
    1 + (CASE ins.mode = "Implied" -> 0
           [] ins.mode \in {"Immediate", "ZeroPage", "XIndexedIndirect", "IndirectYIndexed",
                            "Relative", "IndirectZeroPage", "ZeroPageXIndexed",
                            "ZeroPageYIndexed"} -> 1
           [] OTHER -> 2)

sei(m) == [m EXCEPT !.core.flags.interrupt_disable = TRUE]

cli(m) == [m EXCEPT !.core.flags.interrupt_disable = FALSE]

sec(m) == [m EXCEPT !.core.flags.carry = TRUE]

\* lda with AddressingMode::Immediate
lda(m, ins) ==
    [m EXCEPT !.core.a = ins.operand,
              !.core.flags.zero = (ins.operand = 0),
              !.core.flags.negative = is_negative(ins.operand)]

\* sta with AddressingMode::ZeroPage
sta(m, ins) == AS_write_u8(m, ins.operand, m.core.a)

pha(m) == push_u8(m, m.core.a)

pla(m) ==
    LET loaded(popped) ==
            [popped.m EXCEPT !.core.a = popped.val,
                             !.core.flags.zero = (popped.val = 0),
                             !.core.flags.negative = is_negative(popped.val)]
    IN  loaded(pop_u8(m))

php(m) == push_u8(m, Flags_to_u8(m.core.flags))

plp(m) ==
    LET loaded(popped) == [popped.m EXCEPT !.core.flags = Flags_from_u8(popped.val)]
    IN  loaded(pop_u8(m))

\* rti leaving the interrupted latch as it is
rti_keep_latch(m) ==
    LET with_flags(p) == [p.m EXCEPT !.core.flags = Flags_from_u8(p.val)]
        with_pc(pc) == [pc.m EXCEPT !.core.pc = pc.val]
    IN  with_pc(pop_u16(with_flags(pop_u8(m))))

rti(m) ==
    LET with_flags(p) == [p.m EXCEPT !.core.flags = Flags_from_u8(p.val)]
        with_pc(pc) ==
            [pc.m EXCEPT !.core.pc = pc.val, !.irq = set_interrupted(pc.m.irq, FALSE)]
    IN  with_pc(pop_u16(with_flags(pop_u8(m))))

\* jsr pushing the address of its own last byte, as the 6502 does
jsr_last_byte(m, ins) ==
    [push_u16(m, (m.core.pc + 65535) % 65536) EXCEPT !.core.pc = ins.operand]

\* jsr with AddressingMode::AbsoluteAddress: pc is already past the instruction
jsr(m, ins) == [push_u16(m, m.core.pc) EXCEPT !.core.pc = ins.operand]

\* rts adding one to the address popped
rts_plus_one(m) ==
    LET with_pc(p) == [p.m EXCEPT !.core.pc = (p.val + 1) % 65536]
    IN  with_pc(pop_u16(m))

rts(m) ==
    LET with_pc(p) == [p.m EXCEPT !.core.pc = p.val]
    IN  with_pc(pop_u16(m))

\* adc on the core c and the operand its addressing mode read: the core it leaves
\* and the cycle it adds itself
adc(c, operand) ==
    LET carry == B2N(c.flags.carry)
        low == (c.a % 16) + (operand % 16) + carry
        low_result == IF low > 9 THEN ((low + 6) % 16) + 16 ELSE low
        high == (c.a \div 16) * 16 + (operand \div 16) * 16 + low_result
        sum == IF c.flags.decimal
               THEN (IF high > 144 THEN high + 96 ELSE high)
               ELSE operand + c.a + carry
        a == sum % 256
        carry_out == sum >= 256
        c_6 == ((a % 128) + (operand % 128) + B2N(carry_out)) % 256 >= 128
    IN  [core |-> [c EXCEPT !.a = a,
                            !.flags.carry = carry_out,
                            !.flags.zero = (a = 0),
                            !.flags.negative = is_negative(a),
                            !.flags.overflow = (c_6 # carry_out)],
         cycles |-> IF c.flags.decimal THEN 1 ELSE 0]

\* sbc on the core c and the operand its addressing mode read
sbc(c, operand) ==
    LET old_carry == B2N(c.flags.carry)
        result == c.a + (255 - operand) + old_carry
        low == (c.a % 16) - (operand % 16) + old_carry - 1
        low_sum == IF low < 0 THEN ((low - 6) % 16) - 16 ELSE low
        high == (c.a \div 16) * 16 - (operand \div 16) * 16 + low_sum
        sum == IF high < 0 THEN high - 96 ELSE high
        a == IF c.flags.decimal THEN sum % 256 ELSE result % 256
    IN  [core |-> [c EXCEPT !.a = a,
                            !.flags.carry = result > 255,
                            !.flags.zero = (result % 256 = 0),
                            !.flags.overflow =
                                (/\ Bit(c.a, 7) # Bit(operand, 7)
                                 /\ Bit(c.a, 7) # Bit(result % 256, 7)),
                            !.flags.negative = is_negative(result % 256)],
         cycles |-> 0]

\* Core::execute_instruction
execute_instruction(m, ins) ==
    CASE ins.opcode = "Sei" -> sei(m)
      [] ins.opcode = "Cli" -> cli(m)
      [] ins.opcode = "Sec" -> sec(m)
      [] ins.opcode = "Lda" -> lda(m, ins)
      [] ins.opcode = "Sta" -> sta(m, ins)
      [] ins.opcode = "Pha" -> pha(m)
      [] ins.opcode = "Pla" -> pla(m)
      [] ins.opcode = "Php" -> php(m)
      [] ins.opcode = "Plp" -> plp(m)
      [] ins.opcode = "Rti" -> rti(m)
      [] ins.opcode = "Jsr" -> jsr(m, ins)
      [] ins.opcode = "Rts" -> rts(m)

\* Core::step on the instruction decoded at pc
Core_step(m, ins) ==
    execute_instruction(
        [m EXCEPT !.core.pc = (m.core.pc + encoded_length(ins)) % 65536], ins)

(***************************************************************************)
(* st2205u/mcu.rs                                                          *)
(***************************************************************************)
\* the match of Mcu::step from the interrupt to its vector
interrupt_vector(irq) ==
    CASE irq = "Intx" -> vector_INTX [] irq = "Timer0" -> vector_T0
      [] irq = "Timer1" -> vector_T1 [] irq = "Timer2" -> vector_T2
      [] irq = "Timer3" -> vector_T3 [] irq = "PortATransition" -> vector_PT
      [] irq = "BaseTimer" -> vector_BT [] irq = "LcdBuffer" -> vector_LCD
      [] irq = "SpiTxEmpty" -> vector_STX [] irq = "SpiRxReady" -> vector_SRX
      [] irq = "UartTx" -> vector_UTX [] irq = "UartRx" -> vector_URX
      [] irq = "Usb" -> vector_USB [] irq = "Pcm" -> vector_PCM
      [] irq = "Rtc" -> vector_RTC

\* the timer loop of Mcu::step: timers_int is the mask returned by timer.update()
assert_timers(st, timers_int) ==
    LET timer(s, i, n) == IF TestBit(timers_int, i) THEN assert_interrupt(s, n) ELSE s
    IN  timer(timer(timer(timer(st, 0, "Timer0"), 1, "Timer1"), 2, "Timer2"),
              3, "Timer3")

\* Mcu::step up to the dispatch test: the instruction, the base timer, the timers
before_dispatch(m, ins, bt, timers_int) ==
    LET base_timer(st) == IF bt THEN assert_interrupt(st, "BaseTimer") ELSE st
        timers(m1) == [m1 EXCEPT !.irq = assert_timers(base_timer(m1.irq), timers_int)]
    IN  timers(Core_step(m, ins))

\* the dispatch test without the interrupted latch
dispatch_due_unlatched(m) == ~m.core.flags.interrupt_disable

\* the test `!flags.interrupt_disable && !interrupted()` of Mcu::step
dispatch_due(m) == ~m.core.flags.interrupt_disable /\ ~m.irq.interrupted

\* the body of the dispatch: acknowledge, latch, push, load the vector
interrupt_entry(m, irq) ==
    LET acked == [m EXCEPT !.irq =
                     set_interrupted(clear_interrupt_request(m.irq, irq), TRUE)]
        push(a) == push_u8(push_u16(a, a.core.pc), Flags_to_u8(a.core.flags))
        load(pushed) ==
            [pushed EXCEPT !.core.pc = read_u16_le(pushed, interrupt_vector(irq))]
    IN  load(push(acked))

\* Mcu::step from highest_priority_interrupt() on
dispatch(m2) ==
    LET enter(irq) ==
            IF dispatch_due(m2) /\ irq # None THEN interrupt_entry(m2, irq[1]) ELSE m2
    IN  enter(highest_priority_interrupt(m2.irq))

\* Mcu::step
Mcu_step(m, ins, bt, timers_int) == dispatch(before_dispatch(m, ins, bt, timers_int))

\* Mcu::reset
Mcu_reset(m) ==
    LET load(latched) ==
            [latched EXCEPT !.core.pc = read_u16_le(latched, vector_RESET),
                            !.irq = set_interrupted(latched.irq, FALSE)]
    IN  load([m EXCEPT !.irq = set_interrupted(m.irq, TRUE)])

(***************************************************************************)
(* st2205u/psg.rs                                                          *)
(***************************************************************************)
PsgChannels == 0 .. 3

\* PsgModeState::default_pcmdac
default_pcmdac == [mode |-> "PcmDac", fifo |-> <<>>, current_sample |-> 128]

\* psg::State::new (the control byte and the multiplier do not reach the mixer)
Psg_new ==
    [psg_states |-> [c \in PsgChannels |-> default_pcmdac],
     volumes |-> [c \in PsgChannels |-> 0]]

\* i16::clamp(-255, 256) of write_psgxa
clamp9(v) == IF v < -255 THEN -255 ELSE IF v > 256 THEN 256 ELSE v

\* fifo.back().unwrap_or(&0)
fifo_back(fifo) == IF fifo = <<>> THEN 0 ELSE fifo[Len(fifo)]

\* State::write_psgxa (the tone mode panics and is not entered here)
write_psgxa(st, channel, value) ==
    LET pushed(ch) ==
            CASE ch.mode = "AdpcmDac" ->
                    [ch EXCEPT !.fifo = Append(@, clamp9(fifo_back(@) + value))]
              [] ch.mode = "PcmDac" -> [ch EXCEPT !.fifo = Append(@, value)]
    IN  [st EXCEPT !.psg_states[channel] = pushed(@)]

\* State::write_volx, with PsgVolume::set_u8
write_volx(st, channel, value) == [st EXCEPT !.volumes[channel] = value % 64]

\* State::pop_current_sample
pop_current_sample(st, channel) ==
    LET popped(ch) ==
            [ch EXCEPT !.current_sample = IF ch.fifo = <<>> THEN 0 ELSE Head(ch.fifo),
                       !.fifo = IF ch.fifo = <<>> THEN <<>> ELSE Tail(ch.fifo)]
    IN  [st EXCEPT !.psg_states[channel] = popped(@)]

\* the closure channel_as_f32 of get_mix_f32, in units of 1/512
channel_as_f32(ch) ==
    CASE ch.mode = "AdpcmDac" -> 2 * ch.current_sample
      [] ch.mode = "PcmDac" -> ch.current_sample - 128

\* State::get_mix_f32, in units of 1/(4 * 512 * 63): the two mixers halve the sum of
\* their channels' samples scaled by volume/63, and the result halves their sum
get_mix_f32(st) ==
    (channel_as_f32(st.psg_states[0]) * st.volumes[0]
       + channel_as_f32(st.psg_states[1]) * st.volumes[1])
      + (channel_as_f32(st.psg_states[2]) * st.volumes[2]
           + channel_as_f32(st.psg_states[3]) * st.volumes[3])

\* Multiplicator::new
Multiplicator_new ==
    [external_mull |-> 0, external_mulh |-> 0, last_mulh_was_1 |-> FALSE,
     internal_mulh0 |-> 0, internal_mulh1 |-> 0, internal_mull |-> 0]

\* Multiplicator::write_mull: operand1 * operand2 is a product of two u16, which
\* wraps in a build without overflow checks and panics in a build with them
write_mull(mu, value, overflow_checks) ==
    LET operand1 == mu.internal_mulh0 + mu.internal_mulh1 * 256
        latched == [mu EXCEPT !.internal_mull = value]
        result == (operand1 * value) % 65536
    IN  IF operand1 * value >= 65536 /\ overflow_checks
        THEN [mul |-> latched, panic |-> TRUE]
        ELSE [mul |-> [latched EXCEPT !.external_mull = result % 256,
                                      !.external_mulh = (result \div 256) % 256],
              panic |-> FALSE]

\* Multiplicator::write_mulh
write_mulh(mu, value) ==
    LET stored == IF mu.last_mulh_was_1
                  THEN [mu EXCEPT !.internal_mulh0 = value]
                  ELSE [mu EXCEPT !.internal_mulh1 = value]
    IN  [stored EXCEPT !.last_mulh_was_1 = ~mu.last_mulh_was_1]

\* Multiplicator::read_mull
read_mull(mu) == mu.external_mull

\* Multiplicator::read_mulh
read_mulh(mu) == mu.external_mulh

(***************************************************************************)
(* audio.rs                                                                *)
(***************************************************************************)
FRAME_SIZE == 512

\* the AudioSender of stream_setup_for; samples counts clock_of_last_sample in
\* units of clocks_between_samples, sent is what went down the channel
AudioSender_new == [buffer |-> <<>>, samples |-> 0, sent |-> <<>>]

\* AudioSender::add_sample
add_sample(snd, value) ==
    LET flush(s) ==
            IF Len(s.buffer) >= FRAME_SIZE
            THEN [s EXCEPT !.sent = Append(@, s.buffer), !.buffer = <<>>]
            ELSE s
    IN  flush([snd EXCEPT !.buffer = Append(@, value), !.samples = @ + 1])

(***************************************************************************)
(* platform/cpal_audio.rs: ch = [snd, queue, rcv], the AudioSender of the  *)
(* emulator thread, the batches the mpsc channel holds, and the            *)
(* AudioReceiver of the callback thread                                    *)
(***************************************************************************)
\* stream_setup_for and make_stream: channel(), the AudioSender, AudioReceiver::new
Channel_new(frame_size) ==
    [snd |-> [buffer |-> <<>>, frame_size |-> frame_size],
     queue |-> <<>>,
     rcv |-> [buffer |-> <<>>, last_sample |-> 0]]

\* AudioSender::add_sample sending only once the buffer has outgrown frame_size
AudioSender_add_sample_late(ch, value) ==
    LET pushed == Append(ch.snd.buffer, value)
    IN  IF Len(pushed) > ch.snd.frame_size
        THEN [ch EXCEPT !.snd.buffer = <<>>, !.queue = Append(@, pushed)]
        ELSE [ch EXCEPT !.snd.buffer = pushed]

\* AudioSender::add_sample: push, then take the buffer and send it when it holds
\* frame_size samples
AudioSender_add_sample(ch, value) ==
    LET pushed == Append(ch.snd.buffer, value)
    IN  IF Len(pushed) >= ch.snd.frame_size
        THEN [ch EXCEPT !.snd.buffer = <<>>, !.queue = Append(@, pushed)]
        ELSE [ch EXCEPT !.snd.buffer = pushed]

\* AudioReceiver::update: try_recv takes one batch if the channel holds one
AudioReceiver_update(ch) ==
    IF ch.queue = <<>> THEN ch
    ELSE [ch EXCEPT !.rcv.buffer = @ \o Head(ch.queue), !.queue = Tail(@)]

\* AudioReceiver::pop_value: the front of the buffer, or last_sample again
AudioReceiver_pop_value(ch) ==
    LET value == IF ch.rcv.buffer = <<>> THEN ch.rcv.last_sample ELSE Head(ch.rcv.buffer)
    IN  [ch |-> [ch EXCEPT !.rcv.last_sample = value,
                           !.rcv.buffer = IF @ = <<>> THEN <<>> ELSE Tail(@)],
         value |-> value]

(***************************************************************************)
(* st2205u/mcu.rs: the sound of a step                                     *)
(***************************************************************************)
\* the timer loop of Mcu::step on the PSG: a channel whose timer overflowed pops
pop_samples(st, timers_int) ==
    LET pop(s, i) == IF TestBit(timers_int, i) THEN pop_current_sample(s, i) ELSE s
    IN  pop(pop(pop(pop(st, 0), 1), 2), 3)

\* the sampling of Mcu::step: needs is what audio_sender.needs_sample() answers
sample_phase(snd, st, needs) == IF needs THEN add_sample(snd, get_mix_f32(st)) ELSE snd

\* the sampling done before the timer loop has popped
sample_phase_early(st, timers_int, snd, needs) ==
    [psg |-> pop_samples(st, timers_int), audio |-> sample_phase(snd, st, needs)]

\* Mcu::step on the PSG and the sink: the pops of the timer loop, then the sampling
sound_phases(st, timers_int, snd, needs) ==
    [psg |-> pop_samples(st, timers_int),
     audio |-> sample_phase(snd, pop_samples(st, timers_int), needs)]

(***************************************************************************)
(* st2205u/base_timer.rs, st2205u/clock.rs, handheld.rs                    *)
(***************************************************************************)
TIMER_FREQUENCY == 8192

SYSTEM_FREQ == 16000000

\* the u64 quotient (a * f) / d, computed without the product: a * f leaves the
\* integers TLC has when the counter is large
MulDiv(a, f, d) == a * (f \div d) + (a * (f % d)) \div d

\* State::update_next_counter_tick
update_next_counter_tick(t) ==
    [t EXCEPT !.next_counter_tick =
        MulDiv(t.counter + 1, t.input_clock_frequency, TIMER_FREQUENCY)]

\* base_timer::State::new
BaseTimer_new(clock_frequency) ==
    update_next_counter_tick(
        [input_clock_frequency |-> clock_frequency, elapsed_ticks |-> 0, counter |-> 0,
         next_counter_tick |-> 0, btc |-> 0, bten |-> 0, btreq |-> 0])

\* State::set_elapsed_ticks
set_elapsed_ticks(t, ticks) == [t EXCEPT !.elapsed_ticks = ticks]

\* State::increment_counter
increment_counter(t) == update_next_counter_tick([t EXCEPT !.counter = @ + 1])

\* State::btc
btc(t) == t.counter % 8192

\* the request bits of State::update before BTEN masks them: bit k is set when the
\* counter is a multiple of 8192 / freq_k
btreq_bits(t) ==
    LET bit(k, freq) == IF btc(t) % (TIMER_FREQUENCY \div freq) = 0 THEN Pow2(k) ELSE 0
    IN  bit(0, 2) + bit(1, 32) + bit(2, 64) + bit(3, 128) + bit(4, 256) + bit(5, 512)
          + bit(6, 2048) + bit(7, IF t.btc = 0 THEN 8192 ELSE t.btc)

\* State::update: the state it leaves and the answer it gives
BaseTimer_update(t) ==
    LET request(inc) ==
            [t |-> [inc EXCEPT !.btreq = BitOr(BitAnd(btreq_bits(inc), inc.bten), @)],
             fired |-> BitAnd(btreq_bits(inc), inc.bten) # 0]
    IN  IF t.elapsed_ticks < t.next_counter_tick
        THEN [t |-> t, fired |-> FALSE]
        ELSE request(increment_counter(t))

\* base_timer::write_bten
write_bten(t, value) == [t EXCEPT !.bten = U8_set(255, value)]

\* a write to BTREQ that stores the value written instead of clearing its bits
write_btreq_store(t, value) == [t EXCEPT !.btreq = U8_set(255, value)]

\* base_timer::write_btreq: the bits written as 1 are cleared, the others kept
write_btreq(t, value) == [t EXCEPT !.btreq = U8_set(255, BitAnd(t.btreq, 255 - value))]

\* base_timer::write_btc
write_btc(t, value) == [t EXCEPT !.btc = U8_set(255, value)]

(***************************************************************************)
(* st2205u/timer.rs                                                        *)
(***************************************************************************)
\* TimerState::new
TimerState_new ==
    [counter |-> 0, reload_value |-> 0, clock_select |-> 0, enabled |-> FALSE,
     auto_reload |-> FALSE]

\* TimerBlocksState::new: t0 .. t3 are t[1] .. t[4]
TimerBlocksState_new == [t |-> [i \in 1 .. 4 |-> TimerState_new], elapsed_ticks |-> 0]

\* TimerBlocksState::set_elapsed_ticks
Timer_set_elapsed_ticks(tb, ticks) == [tb EXCEPT !.elapsed_ticks = ticks]

\* the match on clock_select of TimerBlocksState::update
should_increment(clock_select, elapsed) ==
    CASE clock_select = 0 -> elapsed % 2 = 0
      [] clock_select = 1 -> elapsed % 4 = 0
      [] clock_select = 2 -> elapsed % 8 = 0
      [] clock_select = 3 -> elapsed % 32 = 0
      [] clock_select = 4 -> elapsed % 1024 = 0
      [] clock_select = 5 -> elapsed % 4096 = 0
      [] OTHER -> FALSE

\* an update of one timer that reloads 0 whatever auto_reload says
timer_step_no_reload(timer, elapsed) ==
    IF timer.enabled /\ should_increment(timer.clock_select, elapsed)
    THEN [timer |-> [timer EXCEPT !.counter = (timer.counter + 1) % 4096],
          overflowed |-> (timer.counter + 1) % 4096 # timer.counter + 1]
    ELSE [timer |-> timer, overflowed |-> FALSE]

\* the body of the loop of TimerBlocksState::update, for one timer
timer_step(timer, elapsed) ==
    LET updated_counter16 == timer.counter + 1
        updated_counter12 == updated_counter16 % 4096
        overflowed == updated_counter12 # updated_counter16
    IN  IF ~timer.enabled THEN [timer |-> timer, overflowed |-> FALSE]
        ELSE IF ~should_increment(timer.clock_select, elapsed)
        THEN [timer |-> timer, overflowed |-> FALSE]
        ELSE [timer |-> [timer EXCEPT !.counter =
                            IF overflowed
                            THEN (IF timer.auto_reload THEN timer.reload_value ELSE 0)
                            ELSE updated_counter12],
              overflowed |-> overflowed]

\* TimerBlocksState::update: the timers it leaves and the mask it returns
Timer_update(tb) ==
    [tb |-> [tb EXCEPT !.t = [i \in 1 .. 4 |-> timer_step(tb.t[i], tb.elapsed_ticks).timer]],
     interrupts |->
        LET bit(i) == IF timer_step(tb.t[i + 1], tb.elapsed_ticks).overflowed
                      THEN Pow2(i) ELSE 0
        IN  bit(0) + bit(1) + bit(2) + bit(3)]

\* TimerBlocksState::write_txcl, timer 0 .. 3
write_txcl(tb, timer, value) ==
    [tb EXCEPT !.t[timer + 1].counter = (@ \div 256) * 256 + value,
               !.t[timer + 1].reload_value = (@ \div 256) * 256 + value]

\* TimerBlocksState::write_txch, timer 0 .. 3
write_txch(tb, timer, value) ==
    [tb EXCEPT !.t[timer + 1].auto_reload = value >= 128,
               !.t[timer + 1].clock_select = (value \div 16) % 8,
               !.t[timer + 1].counter = (@ % 256) + (value % 16) * 256,
               !.t[timer + 1].reload_value = (@ % 256) + (value % 16) * 256]

\* TimerBlocksState::write_tien
write_tien(tb, value) ==
    [tb EXCEPT !.t = [i \in 1 .. 4 |-> [tb.t[i] EXCEPT !.enabled = Bit(value, i - 1) = 1]]]

(***************************************************************************)
(* st2205u/wdc_65c02: decoder.rs, core.rs, addr_mode.rs, instr.rs          *)
(***************************************************************************)
CYCLE_FREQUENCY_DIVISOR == 2

\* the match of DecodedInstruction::decode on the opcode byte: the opcode, the
\* addressing mode, cycles and extra_page_boundary_cycle of each of the 256 arms
DecodeTable ==
    <<
       <<"Brk", "Implied", 7, FALSE>>, <<"Ora", "XIndexedIndirect", 6, FALSE>>,  \* 0x00
       <<"Nop", "Immediate", 2, FALSE>>, <<"Nop", "Implied", 1, FALSE>>,  \* 0x02
       <<"Tsb", "ZeroPage", 5, FALSE>>, <<"Ora", "ZeroPage", 3, FALSE>>,  \* 0x04
       <<"Asl", "ZeroPage", 5, FALSE>>, <<"Rmb0", "ZeroPage", 5, FALSE>>,  \* 0x06
       <<"Php", "Implied", 3, FALSE>>, <<"Ora", "Immediate", 2, FALSE>>,  \* 0x08
       <<"Asl", "Implied", 2, FALSE>>, <<"Nop", "Implied", 1, FALSE>>,  \* 0x0A
       <<"Tsb", "Absolute", 6, FALSE>>, <<"Ora", "Absolute", 4, FALSE>>,  \* 0x0C
       <<"Asl", "Absolute", 6, FALSE>>, <<"Bbr0", "ZeroPageRelative", 5, FALSE>>,  \* 0x0E
       <<"Bpl", "Relative", 2, TRUE>>, <<"Ora", "IndirectYIndexed", 5, TRUE>>,  \* 0x10
       <<"Ora", "IndirectZeroPage", 5, FALSE>>, <<"Nop", "Implied", 1, FALSE>>,  \* 0x12
       <<"Trb", "ZeroPage", 5, FALSE>>, <<"Ora", "ZeroPageXIndexed", 4, FALSE>>,  \* 0x14
       <<"Asl", "ZeroPageXIndexed", 6, FALSE>>, <<"Rmb1", "ZeroPage", 5, FALSE>>,  \* 0x16
       <<"Clc", "Implied", 2, FALSE>>, <<"Ora", "AbsoluteYIndexed", 4, TRUE>>,  \* 0x18
       <<"Inc", "Implied", 2, FALSE>>, <<"Nop", "Implied", 1, FALSE>>,  \* 0x1A
       <<"Trb", "Absolute", 6, FALSE>>, <<"Ora", "AbsoluteXIndexed", 4, TRUE>>,  \* 0x1C
       <<"Asl", "AbsoluteXIndexed", 6, TRUE>>, <<"Bbr1", "ZeroPageRelative", 5, FALSE>>,  \* 0x1E
       <<"Jsr", "AbsoluteImmediate", 6, FALSE>>, <<"And", "XIndexedIndirect", 6, FALSE>>,  \* 0x20
       <<"Nop", "Immediate", 2, FALSE>>, <<"Nop", "Implied", 1, FALSE>>,  \* 0x22
       <<"Bit", "ZeroPage", 3, FALSE>>, <<"And", "ZeroPage", 3, FALSE>>,  \* 0x24
       <<"Rol", "ZeroPage", 5, FALSE>>, <<"Rmb2", "ZeroPage", 5, FALSE>>,  \* 0x26
       <<"Plp", "Implied", 4, FALSE>>, <<"And", "Immediate", 2, FALSE>>,  \* 0x28
       <<"Rol", "Implied", 2, FALSE>>, <<"Nop", "Implied", 1, FALSE>>,  \* 0x2A
       <<"Bit", "Absolute", 4, FALSE>>, <<"And", "Absolute", 4, FALSE>>,  \* 0x2C
       <<"Rol", "Absolute", 6, FALSE>>, <<"Bbr2", "ZeroPageRelative", 5, FALSE>>,  \* 0x2E
       <<"Bmi", "Relative", 2, TRUE>>, <<"And", "IndirectYIndexed", 5, TRUE>>,  \* 0x30
       <<"And", "IndirectZeroPage", 5, FALSE>>, <<"Nop", "Implied", 1, FALSE>>,  \* 0x32
       <<"Bit", "ZeroPageXIndexed", 4, FALSE>>, <<"And", "ZeroPageXIndexed", 4, FALSE>>,  \* 0x34
       <<"Rol", "ZeroPageXIndexed", 6, FALSE>>, <<"Rmb3", "ZeroPage", 5, FALSE>>,  \* 0x36
       <<"Sec", "Implied", 2, FALSE>>, <<"And", "AbsoluteYIndexed", 4, TRUE>>,  \* 0x38
       <<"Dec", "Implied", 2, FALSE>>, <<"Nop", "Implied", 1, FALSE>>,  \* 0x3A
       <<"Bit", "AbsoluteXIndexed", 4, TRUE>>, <<"And", "AbsoluteXIndexed", 4, TRUE>>,  \* 0x3C
       <<"Rol", "AbsoluteXIndexed", 6, TRUE>>, <<"Bbr3", "ZeroPageRelative", 5, FALSE>>,  \* 0x3E
       <<"Rti", "Implied", 6, FALSE>>, <<"Eor", "XIndexedIndirect", 6, FALSE>>,  \* 0x40
       <<"Nop", "Immediate", 2, FALSE>>, <<"Nop", "Implied", 1, FALSE>>,  \* 0x42
       <<"Nop", "ZeroPage", 3, FALSE>>, <<"Eor", "ZeroPage", 3, FALSE>>,  \* 0x44
       <<"Lsr", "ZeroPage", 5, FALSE>>, <<"Rmb4", "ZeroPage", 5, FALSE>>,  \* 0x46
       <<"Pha", "Implied", 3, FALSE>>, <<"Eor", "Immediate", 2, FALSE>>,  \* 0x48
       <<"Lsr", "Implied", 2, FALSE>>, <<"Nop", "Implied", 1, FALSE>>,  \* 0x4A
       <<"Jmp", "AbsoluteImmediate", 3, FALSE>>, <<"Eor", "Absolute", 4, FALSE>>,  \* 0x4C
       <<"Lsr", "Absolute", 6, FALSE>>, <<"Bbr4", "ZeroPageRelative", 5, FALSE>>,  \* 0x4E
       <<"Bvc", "Relative", 2, TRUE>>, <<"Eor", "IndirectYIndexed", 5, TRUE>>,  \* 0x50
       <<"Eor", "IndirectZeroPage", 5, FALSE>>, <<"Nop", "Implied", 1, FALSE>>,  \* 0x52
       <<"Nop", "ZeroPageXIndexed", 4, FALSE>>, <<"Eor", "ZeroPageXIndexed", 4, FALSE>>,  \* 0x54
       <<"Lsr", "ZeroPageXIndexed", 6, FALSE>>, <<"Rmb5", "ZeroPage", 5, FALSE>>,  \* 0x56
       <<"Cli", "Implied", 2, FALSE>>, <<"Eor", "AbsoluteYIndexed", 4, TRUE>>,  \* 0x58
       <<"Phy", "Implied", 3, FALSE>>, <<"Nop", "Implied", 1, FALSE>>,  \* 0x5A
       <<"Nop", "Absolute", 8, FALSE>>, <<"Eor", "AbsoluteXIndexed", 4, TRUE>>,  \* 0x5C
       <<"Lsr", "AbsoluteXIndexed", 6, TRUE>>, <<"Bbr5", "ZeroPageRelative", 5, FALSE>>,  \* 0x5E
       <<"Rts", "Implied", 6, FALSE>>, <<"Adc", "XIndexedIndirect", 6, FALSE>>,  \* 0x60
       <<"Nop", "Immediate", 2, FALSE>>, <<"Nop", "Implied", 1, FALSE>>,  \* 0x62
       <<"Stz", "ZeroPage", 3, FALSE>>, <<"Adc", "ZeroPage", 3, FALSE>>,  \* 0x64
       <<"Ror", "ZeroPage", 5, FALSE>>, <<"Rmb6", "ZeroPage", 5, FALSE>>,  \* 0x66
       <<"Pla", "Implied", 4, FALSE>>, <<"Adc", "Immediate", 2, FALSE>>,  \* 0x68
       <<"Ror", "Implied", 2, FALSE>>, <<"Nop", "Implied", 1, FALSE>>,  \* 0x6A
       <<"Jmp", "Indirect", 6, FALSE>>, <<"Adc", "Absolute", 4, FALSE>>,  \* 0x6C
       <<"Ror", "Absolute", 6, FALSE>>, <<"Bbr6", "ZeroPageRelative", 5, FALSE>>,  \* 0x6E
       <<"Bvs", "Relative", 2, TRUE>>, <<"Adc", "IndirectYIndexed", 5, TRUE>>,  \* 0x70
       <<"Adc", "IndirectZeroPage", 5, FALSE>>, <<"Nop", "Implied", 1, FALSE>>,  \* 0x72
       <<"Stz", "ZeroPageXIndexed", 4, FALSE>>, <<"Adc", "ZeroPageXIndexed", 4, FALSE>>,  \* 0x74
       <<"Ror", "ZeroPageXIndexed", 6, FALSE>>, <<"Rmb7", "ZeroPage", 5, FALSE>>,  \* 0x76
       <<"Sei", "Implied", 2, FALSE>>, <<"Adc", "AbsoluteYIndexed", 4, TRUE>>,  \* 0x78
       <<"Ply", "Implied", 4, FALSE>>, <<"Nop", "Implied", 1, FALSE>>,  \* 0x7A
       <<"Jmp", "AbsoluteXIndexedIndirect", 6, FALSE>>, <<"Adc", "AbsoluteXIndexed", 4, TRUE>>,  \* 0x7C
       <<"Ror", "AbsoluteXIndexed", 6, TRUE>>, <<"Bbr7", "ZeroPageRelative", 5, FALSE>>,  \* 0x7E
       <<"Bra", "Relative", 3, TRUE>>, <<"Sta", "XIndexedIndirect", 6, FALSE>>,  \* 0x80
       <<"Nop", "Immediate", 2, FALSE>>, <<"Nop", "Implied", 1, FALSE>>,  \* 0x82
       <<"Sty", "ZeroPage", 3, FALSE>>, <<"Sta", "ZeroPage", 3, FALSE>>,  \* 0x84
       <<"Stx", "ZeroPage", 3, FALSE>>, <<"Smb0", "ZeroPage", 5, FALSE>>,  \* 0x86
       <<"Dey", "Implied", 2, FALSE>>, <<"Bit", "Immediate", 2, FALSE>>,  \* 0x88
       <<"Txa", "Implied", 2, FALSE>>, <<"Nop", "Implied", 1, FALSE>>,  \* 0x8A
       <<"Sty", "Absolute", 4, FALSE>>, <<"Sta", "Absolute", 4, FALSE>>,  \* 0x8C
       <<"Stx", "Absolute", 4, FALSE>>, <<"Bbs0", "ZeroPageRelative", 5, FALSE>>,  \* 0x8E
       <<"Bcc", "Relative", 2, TRUE>>, <<"Sta", "IndirectYIndexed", 6, FALSE>>,  \* 0x90
       <<"Sta", "IndirectZeroPage", 5, FALSE>>, <<"Nop", "Implied", 1, FALSE>>,  \* 0x92
       <<"Sty", "ZeroPageXIndexed", 4, FALSE>>, <<"Sta", "ZeroPageXIndexed", 4, FALSE>>,  \* 0x94
       <<"Stx", "ZeroPageYIndexed", 4, FALSE>>, <<"Smb1", "ZeroPage", 5, FALSE>>,  \* 0x96
       <<"Tya", "Implied", 2, FALSE>>, <<"Sta", "AbsoluteYIndexed", 5, FALSE>>,  \* 0x98
       <<"Txs", "Implied", 2, FALSE>>, <<"Nop", "Implied", 1, FALSE>>,  \* 0x9A
       <<"Stz", "Absolute", 4, FALSE>>, <<"Sta", "AbsoluteXIndexed", 5, FALSE>>,  \* 0x9C
       <<"Stz", "AbsoluteXIndexed", 5, FALSE>>, <<"Bbs1", "ZeroPageRelative", 5, FALSE>>,  \* 0x9E
       <<"Ldy", "Immediate", 2, FALSE>>, <<"Lda", "XIndexedIndirect", 6, FALSE>>,  \* 0xA0
       <<"Ldx", "Immediate", 2, FALSE>>, <<"Nop", "Implied", 1, FALSE>>,  \* 0xA2
       <<"Ldy", "ZeroPage", 3, FALSE>>, <<"Lda", "ZeroPage", 3, FALSE>>,  \* 0xA4
       <<"Ldx", "ZeroPage", 3, FALSE>>, <<"Smb2", "ZeroPage", 5, FALSE>>,  \* 0xA6
       <<"Tay", "Implied", 2, FALSE>>, <<"Lda", "Immediate", 2, FALSE>>,  \* 0xA8
       <<"Tax", "Implied", 2, FALSE>>, <<"Nop", "Implied", 1, FALSE>>,  \* 0xAA
       <<"Ldy", "Absolute", 4, FALSE>>, <<"Lda", "Absolute", 4, FALSE>>,  \* 0xAC
       <<"Ldx", "Absolute", 4, FALSE>>, <<"Bbs2", "ZeroPageRelative", 5, FALSE>>,  \* 0xAE
       <<"Bcs", "Relative", 2, TRUE>>, <<"Lda", "IndirectYIndexed", 5, TRUE>>,  \* 0xB0
       <<"Lda", "IndirectZeroPage", 5, FALSE>>, <<"Nop", "Implied", 1, FALSE>>,  \* 0xB2
       <<"Ldy", "ZeroPageXIndexed", 4, FALSE>>, <<"Lda", "ZeroPageXIndexed", 4, FALSE>>,  \* 0xB4
       <<"Ldx", "ZeroPageYIndexed", 4, FALSE>>, <<"Smb3", "ZeroPage", 5, FALSE>>,  \* 0xB6
       <<"Clv", "Implied", 2, FALSE>>, <<"Lda", "AbsoluteYIndexed", 4, TRUE>>,  \* 0xB8
       <<"Tsx", "Implied", 2, FALSE>>, <<"Nop", "Implied", 1, FALSE>>,  \* 0xBA
       <<"Ldy", "AbsoluteXIndexed", 4, TRUE>>, <<"Lda", "AbsoluteXIndexed", 4, TRUE>>,  \* 0xBC
       <<"Ldx", "AbsoluteYIndexed", 4, TRUE>>, <<"Bbs3", "ZeroPageRelative", 5, FALSE>>,  \* 0xBE
       <<"Cpy", "Immediate", 2, FALSE>>, <<"Cmp", "XIndexedIndirect", 6, FALSE>>,  \* 0xC0
       <<"Nop", "Immediate", 2, FALSE>>, <<"Nop", "Implied", 1, FALSE>>,  \* 0xC2
       <<"Cpy", "ZeroPage", 3, FALSE>>, <<"Cmp", "ZeroPage", 3, FALSE>>,  \* 0xC4
       <<"Dec", "ZeroPage", 5, FALSE>>, <<"Smb4", "ZeroPage", 5, FALSE>>,  \* 0xC6
       <<"Iny", "Implied", 2, FALSE>>, <<"Cmp", "Immediate", 2, FALSE>>,  \* 0xC8
       <<"Dex", "Implied", 2, FALSE>>, <<"Wai", "Implied", 3, FALSE>>,  \* 0xCA
       <<"Cpy", "Absolute", 4, FALSE>>, <<"Cmp", "Absolute", 4, FALSE>>,  \* 0xCC
       <<"Dec", "Absolute", 6, FALSE>>, <<"Bbs4", "ZeroPageRelative", 5, FALSE>>,  \* 0xCE
       <<"Bne", "Relative", 2, TRUE>>, <<"Cmp", "IndirectYIndexed", 5, TRUE>>,  \* 0xD0
       <<"Cmp", "IndirectZeroPage", 5, FALSE>>, <<"Nop", "Implied", 1, FALSE>>,  \* 0xD2
       <<"Nop", "ZeroPageXIndexed", 4, FALSE>>, <<"Cmp", "ZeroPageXIndexed", 4, FALSE>>,  \* 0xD4
       <<"Dec", "ZeroPageXIndexed", 6, FALSE>>, <<"Smb5", "ZeroPage", 5, FALSE>>,  \* 0xD6
       <<"Cld", "Implied", 2, FALSE>>, <<"Cmp", "AbsoluteYIndexed", 4, TRUE>>,  \* 0xD8
       <<"Phx", "Implied", 3, FALSE>>, <<"Stp", "Implied", 3, FALSE>>,  \* 0xDA
       <<"Nop", "Absolute", 4, FALSE>>, <<"Cmp", "AbsoluteXIndexed", 4, TRUE>>,  \* 0xDC
       <<"Dec", "AbsoluteXIndexed", 7, FALSE>>, <<"Bbs5", "ZeroPageRelative", 5, FALSE>>,  \* 0xDE
       <<"Cpx", "Immediate", 2, FALSE>>, <<"Sbc", "XIndexedIndirect", 6, FALSE>>,  \* 0xE0
       <<"Nop", "Immediate", 2, FALSE>>, <<"Nop", "Implied", 1, FALSE>>,  \* 0xE2
       <<"Cpx", "ZeroPage", 3, FALSE>>, <<"Sbc", "ZeroPage", 3, FALSE>>,  \* 0xE4
       <<"Inc", "ZeroPage", 5, FALSE>>, <<"Smb6", "ZeroPage", 5, FALSE>>,  \* 0xE6
       <<"Inx", "Implied", 2, FALSE>>, <<"Sbc", "Immediate", 2, FALSE>>,  \* 0xE8
       <<"Nop", "Implied", 2, FALSE>>, <<"Nop", "Implied", 1, FALSE>>,  \* 0xEA
       <<"Cpx", "Absolute", 4, FALSE>>, <<"Sbc", "Absolute", 4, FALSE>>,  \* 0xEC
       <<"Inc", "Absolute", 6, FALSE>>, <<"Bbs6", "ZeroPageRelative", 5, FALSE>>,  \* 0xEE
       <<"Beq", "Relative", 2, TRUE>>, <<"Sbc", "IndirectYIndexed", 5, TRUE>>,  \* 0xF0
       <<"Sbc", "IndirectZeroPage", 5, FALSE>>, <<"Nop", "Implied", 1, FALSE>>,  \* 0xF2
       <<"Nop", "ZeroPageXIndexed", 4, FALSE>>, <<"Sbc", "ZeroPageXIndexed", 4, FALSE>>,  \* 0xF4
       <<"Inc", "ZeroPageXIndexed", 6, FALSE>>, <<"Smb7", "ZeroPage", 5, FALSE>>,  \* 0xF6
       <<"Sed", "Implied", 2, FALSE>>, <<"Sbc", "AbsoluteYIndexed", 4, TRUE>>,  \* 0xF8
       <<"Plx", "Implied", 4, FALSE>>, <<"Nop", "Implied", 1, FALSE>>,  \* 0xFA
       <<"Nop", "Absolute", 4, FALSE>>, <<"Sbc", "AbsoluteXIndexed", 4, TRUE>>,  \* 0xFC
       <<"Inc", "AbsoluteXIndexed", 7, FALSE>>, <<"Bbs7", "ZeroPageRelative", 5, FALSE>>  \* 0xFE
    >>

\* DecodedInstruction::decode, without the operand bytes
decode(byte) ==
    LET arm(e) ==
            [opcode |-> e[1], mode |-> e[2], cycles |-> e[3],
             extra_page_boundary_cycle |-> e[4]]
    IN  arm(DecodeTable[byte + 1])

\* the arms of Core::execute_instruction that are todo!()
TodoOpcodes == {"Bit", "Brk", "Bvc", "Bvs", "Stp", "Trb", "Tsb"}

Bits8 == {"0", "1", "2", "3", "4", "5", "6", "7"}

\* instr.rs: the instructions that call read_operand_u8 only
ReadOps == {"Ldx", "Ldy", "Lda", "Cmp", "Cpx", "Cpy", "And", "Ora", "Eor", "Adc", "Sbc"}

\* instr.rs: the instructions that call write_operand_u8 only (through store)
StoreOps == {"Sta", "Stx", "Sty", "Stz"}

\* instr.rs: the instructions that call read_operand_u8 and then write_operand_u8
ModifyOps ==
    {"Inc", "Dec", "Asl", "Lsr", "Rol", "Ror"}
      \cup {"Smb" \o b : b \in Bits8} \cup {"Rmb" \o b : b \in Bits8}

\* instr.rs: the instructions that call read_operand_i8
BranchOps == {"Bne", "Bmi", "Bpl", "Bra", "Bcc", "Bcs", "Beq"}

\* instr.rs: the instructions that call read_operand_u8_i8
BitBranchOps == {"Bbr" \o b : b \in Bits8} \cup {"Bbs" \o b : b \in Bits8}

\* instr.rs: the instructions that call read_operand_u16
JumpOps == {"Jmp", "Jsr"}

\* instr.rs: the instructions with a `core.cycles += 1` of their own (a branch
\* that is taken, adc in decimal mode)
InnerCycleOps == ((BranchOps \ {"Bra"}) \cup BitBranchOps) \cup {"Adc"}

\* The decoder of the tree names the operand of JSR and JMP AbsoluteImmediate,
\* Indirect and AbsoluteXIndexedIndirect; addr_mode.rs has for them the variants
\* AbsoluteAddress, IndirectAddress and AbsoluteXIndexedIndirectAddress.
addressing_mode(dec) ==
    IF dec.opcode \in JumpOps
    THEN CASE dec.mode = "AbsoluteImmediate" -> "AbsoluteAddress"
           [] dec.mode = "Indirect" -> "IndirectAddress"
           [] dec.mode = "AbsoluteXIndexedIndirect" -> "AbsoluteXIndexedIndirectAddress"
    ELSE dec.mode

AddressModes == {"AbsoluteAddress", "IndirectAddress", "AbsoluteXIndexedIndirectAddress"}

\* the arms of AddressingMode::read_operand_u8 that are todo!() or panic!()
read_operand_u8_panics(mode) ==
    mode \in {"AbsoluteXIndexedIndirect", "Indirect", "Relative", "ZeroPageYIndexed",
              "ZeroPageRelative"} \cup AddressModes

\* AddressingMode::read_operand_i8 panics on all but Relative
read_operand_i8_panics(mode) == mode # "Relative"

\* AddressingMode::read_operand_u16 is todo!() on all but the address variants
read_operand_u16_panics(mode) == mode \notin AddressModes

\* AddressingMode::read_operand_u8_i8 is todo!() on all but ZeroPageRelative
read_operand_u8_i8_panics(mode) == mode # "ZeroPageRelative"

\* the arms of AddressingMode::write_operand_u8 that are todo!() or panic!()
write_operand_u8_panics(mode) ==
    mode \in {"AbsoluteXIndexedIndirect", "Immediate", "Indirect", "XIndexedIndirect",
              "Relative", "ZeroPageYIndexed", "ZeroPageRelative"} \cup AddressModes

\* Core::execute_instruction does not return: the opcode's arm is todo!(), or the
\* instruction asks its addressing mode for an operand it does not give
instruction_panics(dec) ==
    LET on(op, mode) ==
            \/ op \in TodoOpcodes
            \/ op \in ReadOps \cup ModifyOps /\ read_operand_u8_panics(mode)
            \/ op \in StoreOps \cup ModifyOps /\ write_operand_u8_panics(mode)
            \/ op \in BranchOps /\ read_operand_i8_panics(mode)
            \/ op \in BitBranchOps /\ read_operand_u8_i8_panics(mode)
            \/ op \in JumpOps /\ read_operand_u16_panics(mode)
    IN  on(dec.opcode, addressing_mode(dec))

\* the addressing modes whose operand access can report a page crossing
CrossingModes ==
    {"AbsoluteXIndexed", "AbsoluteYIndexed", "IndirectYIndexed",
     "AbsoluteXIndexedIndirectAddress"}

\* execute_instruction leaving Core::cycles as it found it
cycles_kept(c, dec, inner, crossed) == c

\* Core::cycles after execute_instruction: inner is the instruction's own extra
\* cycle, crossed is what the instruction returned
cycles_after(c, dec, inner, crossed) ==
    c + (IF inner THEN 1 ELSE 0) + dec.cycles
      + (IF crossed /\ dec.extra_page_boundary_cycle THEN 1 ELSE 0)

\* Core::instruction_cycles
instruction_cycles(c) == c

\* Core::oscillator_cycles
oscillator_cycles(c) == c * CYCLE_FREQUENCY_DIVISOR

(***************************************************************************)
(* st7626/lcd.rs                                                           *)
(***************************************************************************)
REG_COUNT == 2

LCD_WIDTH == 98

LCD_HEIGHT == 67

DDRAM_PAGE == 68

DDRAM_COLUMN == 98

DDRAM_WIDTH == 2

DDRAM_COUNT == DDRAM_COLUMN * DDRAM_PAGE

\* the length of Lcd::ddram
DDRAM_LEN == DDRAM_COUNT * DDRAM_WIDTH

\* Voltage::set
Voltage_set(value) == value % 512

\* Voltage::max
Voltage_max == Pow2(9) - 1

\* Voltage::new
Voltage_new(value) == Voltage_set(value)

\* Voltage::set_p1
set_p1(val, low) ==
    Voltage_set(BitOr(BitAnd(val, Not16(63)), BitAnd(low, 63)))

\* Voltage::set_p2: the byte is masked with val_mask before it is shifted
set_p2(val, high) ==
    Voltage_set(BitOr(BitAnd(val, Not16(448)), (BitAnd(high, 448) * Pow2(6)) % 65536))

\* Command::from_val
Command_from_val(ext, val) ==
    CASE ~ext /\ val = 175 -> Some("DisplayOn")
      [] ~ext /\ val = 174 -> Some("DisplayOff")
      [] ~ext /\ val = 166 -> Some("NormalDisplay")
      [] ~ext /\ val = 167 -> Some("InverseDisplay")
      [] ~ext /\ val = 187 -> Some("ComScanDirection")
      [] ~ext /\ val = 202 -> Some("DisplayControl")
      [] ~ext /\ val = 4 -> Some("SleepInOutPreparation")
      [] ~ext /\ val = 149 -> Some("SleepIn")
      [] ~ext /\ val = 148 -> Some("SleepOut")
      [] ~ext /\ val = 117 -> Some("PageAddressSet")
      [] ~ext /\ val = 21 -> Some("ColumnAddressSet")
      [] ~ext /\ val = 188 -> Some("DataScanDirection")
      [] ~ext /\ val = 92 -> Some("WritingToMemory")
      [] ~ext /\ val = 93 -> Some("ReadingFromMemory")
      [] ~ext /\ val = 168 -> Some("PartialDisplayIn")
      [] ~ext /\ val = 169 -> Some("PartialDisplayOut")
      [] ~ext /\ val = 224 -> Some("ReadModifyWriteIn")
      [] ~ext /\ val = 238 -> Some("ReadModifyWriteOut")
      [] ~ext /\ val = 170 -> Some("AreaScrollSet")
      [] ~ext /\ val = 171 -> Some("ScrollStartSet")
      [] ~ext /\ val = 209 -> Some("InternalOscOn")
      [] ~ext /\ val = 210 -> Some("InternalOscOff")
      [] ~ext /\ val = 32 -> Some("PowerControl")
      [] ~ext /\ val = 129 -> Some("EcControl")
      [] ~ext /\ val = 214 -> Some("EcIncrease1")
      [] ~ext /\ val = 215 -> Some("EcDecrease1")
      [] ~ext /\ val = 124 -> Some("ReadRegister1")
      [] ~ext /\ val = 125 -> Some("ReadRegister2")
      [] ~ext /\ val = 37 -> Some("NoOperation")
      [] ~ext /\ val = 7 -> Some("EepromFunctionStart")
      [] ext /\ val = 32 -> Some("Frame1PwmSet")
      [] ext /\ val = 33 -> Some("Frame2PwmSet")
      [] ext /\ val = 34 -> Some("Frame3PwmSet")
      [] ext /\ val = 35 -> Some("Frame4PwmSet")
      [] ext /\ val = 50 -> Some("AnalogSet")
      [] ext /\ val = 205 -> Some("ControlEeprom")
      [] ext /\ val = 204 -> Some("CancelEeprom")
      [] ext /\ val = 252 -> Some("WriteToEeprom")
      [] ext /\ val = 253 -> Some("ReadFromEeprom")
      [] ext /\ val = 250 -> Some("DisplayPerformanceAdjustment")
      [] ext /\ val = 244 -> Some("InternalInitializePreparation")
      [] val = 48 -> Some("ExtOff")
      [] val = 49 -> Some("ExtOn")
      [] OTHER -> None

\* Register::from_address
Register_from_address(address) ==
    IF address % REG_COUNT = 0 THEN "Command" ELSE "Data"

\* Lcd::new; ddram holds the bytes written so far, every other byte of the
\* array still being the 0 it was created with
Lcd_new ==
    [ext |-> FALSE, active_command |-> None, byte_since_command |-> 0,
     ddram |-> [at \in {} |-> 0], ddram_ptr |-> 0,
     start_page |-> 0, end_page |-> 0, start_column |-> 0, end_column |-> 0,
     display_on |-> FALSE, voltage |-> Voltage_new(Voltage_max)]

\* self.ddram[at], at inside the array
ddram_get(l, at) == IF at \in DOMAIN l.ddram THEN l.ddram[at] ELSE 0

\* self.ddram[at] = value, at inside the array
ddram_put(l, at, value) ==
    IF at \in DOMAIN l.ddram
    THEN [l EXCEPT !.ddram[at] = value]
    ELSE [l EXCEPT !.ddram = (at :> value) @@ l.ddram]

\* Lcd::handle_command
handle_command(l, command) ==
    LET done(s) == [s EXCEPT !.active_command = Some(command), !.byte_since_command = 0]
    IN  CASE command = "ExtOn" -> done([l EXCEPT !.ext = TRUE])
          [] command = "ExtOff" -> done([l EXCEPT !.ext = FALSE])
          [] command = "DisplayOff" -> done([l EXCEPT !.display_on = FALSE])
          [] command = "DisplayOn" -> done([l EXCEPT !.display_on = TRUE])
          [] OTHER -> done(l)

\* Lcd::ddram_page, with the cast to u8
ddram_page(l) == ((l.ddram_ptr \div DDRAM_WIDTH) \div DDRAM_COLUMN) % 256

\* Lcd::ddram_column
ddram_column(l) == ((l.ddram_ptr \div DDRAM_WIDTH) % DDRAM_COLUMN) % 256

\* Lcd::column_and_page_ptr
column_and_page_ptr(column, page) == (page * DDRAM_COLUMN + column) * DDRAM_WIDTH

\* Lcd::ddram_set_column_and_page
ddram_set_column_and_page(l, column, page) ==
    [l EXCEPT !.ddram_ptr = column_and_page_ptr(column, page)]

\* Lcd::get_voltage_percent times a channel, cut to u8: both done in f32, which
\* differs from the exact quotient for one pair of a channel value and a voltage
scale_channel(channel, val) ==
    IF val <= 1 THEN 0
    ELSE IF val >= 36 THEN channel
    ELSE IF val = 22 /\ channel = 204 THEN 118
    ELSE (channel * (val - 1)) \div 36

\* a pixel left as the array of update_display is created, with red at full
lit_pixel == [red |-> 255, green |-> 0, blue |-> 0]

\* the pixels of update_display before the loop
blank_pixel == [red |-> 0, green |-> 0, blue |-> 0]

\* the body of the loops of update_display
decode_pixel(l, column, page) ==
    LET addr == column_and_page_ptr(column, page)
        pix_1 == ddram_get(l, addr)
        pix_2 == ddram_get(l, addr + 1)
    IN  [red |-> scale_channel(255 - (pix_1 % 16) * 17, l.voltage),
         green |-> scale_channel(255 - (pix_2 \div 16) * 17, l.voltage),
         blue |-> scale_channel(255 - (pix_2 % 16) * 17, l.voltage)]

\* the columns and pages the loops of update_display go through
window_columns(l) == l.start_column .. l.end_column

window_pages(l) == l.start_page .. l.end_page

\* update_display indexes ddram outside the array
update_display_panics(l) ==
    /\ l.display_on
    /\ \E page \in window_pages(l), column \in window_columns(l) :
          column_and_page_ptr(column, page) + 1 >= DDRAM_LEN

\* Lcd::update_display: the pixels handed to Screen::set_pixels, as the pixels
\* the loops have set, in order; every later pixel of the 98 x 67 is blank_pixel
update_display(l) ==
    LET w == Cardinality(window_columns(l))
        h == Cardinality(window_pages(l))
        area == w * h
        n == IF area < LCD_WIDTH * LCD_HEIGHT THEN area ELSE LCD_WIDTH * LCD_HEIGHT
    IN  IF l.display_on
        THEN [i \in 1 .. n |->
                 decode_pixel(l, l.start_column + ((i - 1) % w), l.start_page + ((i - 1) \div w))]
        ELSE <<>>

\* pixel number i (from 0) of a frame
frame_pixel(set, i) == IF i < Len(set) THEN set[i + 1] ELSE blank_pixel

\* the end of handle_data: a call that returns has counted its byte
data_done(l, frames, wrote) ==
    [lcd |-> [l EXCEPT !.byte_since_command = @ + 1], frames |-> frames,
     wrote |-> wrote, panic |-> FALSE]

data_panic(l, wrote) == [lcd |-> l, frames |-> <<>>, wrote |-> wrote, panic |-> TRUE]

\* a frame emitted at the end of an arm of handle_data
data_emit(l, wrote) ==
    IF update_display_panics(l) THEN data_panic(l, wrote)
    ELSE data_done(l, <<update_display(l)>>, wrote)

\* the WritingToMemory arm of handle_data
writing_to_memory(l, value) ==
    LET stored == [ddram_put(l, l.ddram_ptr, value) EXCEPT !.ddram_ptr = @ + 1]
        next_row(s) ==
            IF ddram_column(s) > s.end_column
            THEN ddram_set_column_and_page(s, s.start_column, ddram_page(s) + 1)
            ELSE s
        wrap(s) ==
            IF ddram_page(s) > s.end_page
            THEN data_emit(ddram_set_column_and_page(s, ddram_column(s), s.start_page),
                           Some(l.ddram_ptr))
            ELSE data_done(s, <<>>, Some(l.ddram_ptr))
    IN  IF l.ddram_ptr >= DDRAM_LEN THEN data_panic(l, None)
        ELSE wrap(next_row(stored))

\* Lcd::handle_data: the LCD after the call, the frames it emitted, the ddram
\* index it stored at, and whether it panicked
handle_data(l, value) ==
    LET n == l.byte_since_command
        set_end_page(s) == ddram_set_column_and_page(s, ddram_column(s), s.start_page)
        set_end_column(s) == ddram_set_column_and_page(s, s.start_column, ddram_page(s))
    IN  IF l.active_command = None
        THEN [lcd |-> l, frames |-> <<>>, wrote |-> None, panic |-> FALSE]
        ELSE CASE l.active_command[1] = "PageAddressSet" ->
                    IF n = 0 THEN data_done([l EXCEPT !.start_page = value], <<>>, None)
                    ELSE IF n = 1
                    THEN data_done(set_end_page([l EXCEPT !.end_page = value]), <<>>, None)
                    ELSE data_done(l, <<>>, None)
               [] l.active_command[1] = "ColumnAddressSet" ->
                    IF n = 0 THEN data_done([l EXCEPT !.start_column = value], <<>>, None)
                    ELSE IF n = 1
                    THEN data_done(set_end_column([l EXCEPT !.end_column = value]), <<>>, None)
                    ELSE data_done(l, <<>>, None)
               [] l.active_command[1] = "WritingToMemory" -> writing_to_memory(l, value)
               [] l.active_command[1] = "EcControl" ->
                    IF n = 0
                    THEN data_done([l EXCEPT !.voltage = set_p1(l.voltage, value)], <<>>, None)
                    ELSE IF n = 1
                    THEN data_emit([l EXCEPT !.voltage = set_p2(l.voltage, value)], None)
                    ELSE data_done(l, <<>>, None)
               [] OTHER -> data_done(l, <<>>, None)

\* Lcd::write_u8
Lcd_write_u8(l, address, value) ==
    IF Register_from_address(address) = "Command"
    THEN LET command == Command_from_val(l.ext, value)
         IN  [lcd |-> IF command = None THEN l ELSE handle_command(l, command[1]),
              frames |-> <<>>, wrote |-> None, panic |-> FALSE]
    ELSE handle_data(l, value)

(***************************************************************************)
(* The banked address space driven by register writes and CPU accesses.    *)
(* machine_addr_space is the generic parameter A of St2205uAddressSpace:   *)
(* a call made to it is recorded with its address.                         *)
(***************************************************************************)
\* The CPU addresses accessed: both ends of the BRR, PRR/IRR and DRR windows.
BankProbes == {8192, 16383, 16384, 32767, 32768, 65535}

\* The stack pointers the model follows: 0 (Core::new) with MaxPops above it and
\* MaxPushes below it, modulo 256.
MaxPops == 3

MaxPushes == 7

StackWindow == {k : k \in 0 .. MaxPops} \cup {256 - k : k \in 1 .. MaxPushes}

\* The RAM indices the model tracks: where the probes land, and the stack cells.
RamCells == {a % RAM_LEN : a \in BankProbes} \cup {256 + k : k \in StackWindow}

\* The sources Mcu::step asserts.
McuSources == {"BaseTimer", "Timer0", "Timer1", "Timer2", "Timer3"}

\* Bytes the firmware writes to the halves of a bank register.
BankBytes == {0, 1, 3, 127, 128, 192, 255}

\* The byte the firmware stores through a banked window.
ProbeByte == 171

BankRegs == {"brr", "prr", "irr", "drr"}

\* the arms of write_register for IRRL..BRRH (0x30..0x37)
write_bank_register(bk, address, value) ==
    CASE address = 48 -> [bk EXCEPT !.irr = U16_set_l(bk.irr, value)]
      [] address = 49 -> [bk EXCEPT !.irr = U16_set_h(bk.irr, value)]
      [] address = 50 -> [bk EXCEPT !.prr = U16_set_l(bk.prr, value)]
      [] address = 51 -> [bk EXCEPT !.prr = U16_set_h(bk.prr, value)]
      [] address = 52 -> [bk EXCEPT !.drr = U16_set_l(bk.drr, value)]
      [] address = 53 -> [bk EXCEPT !.drr = U16_set_h(bk.drr, value)]
      [] address = 54 -> [bk EXCEPT !.brr = U16_set_l(bk.brr, value)]
      [] address = 55 -> [bk EXCEPT !.brr = U16_set_h(bk.brr, value)]

\* the bank register an address of 0x30..0x37 belongs to
BankRegAt(address) ==
    CASE address \in {48, 49} -> "irr" [] address \in {50, 51} -> "prr"
      [] address \in {52, 53} -> "drr" [] address \in {54, 55} -> "brr"

\* the flash as constructed, with nothing written to it yet
FlashVarsInit ==
    /\ flash = Flash_new
    /\ flash_out = None
    /\ flash_op = None
    /\ unlock = [seen |-> 0, clean |-> TRUE]
    /\ pushes = 0
    /\ cmd_last = None
    /\ cmd_prev = None
    /\ mode_over = FALSE
    /\ dump = None

\* nothing stepped, asserted or dispatched yet
McuGhostInit ==
    /\ ev = [op |-> "reset",
             dec |-> [pc |-> 0, sp |-> 0, flags |-> Flags_default, latch |-> FALSE,
                      shadow |-> 0, open |-> FALSE],
             irq |-> None, was_armed |-> FALSE, rti |-> None]
    /\ armed = {}
    /\ asserted = [n \in McuSources |-> 0]
    /\ dispatched = [n \in McuSources |-> 0]
    /\ frame = None
    /\ steps = 0
    /\ irq_op = None
    /\ irq_asserts = 0

\* Mcu::new: Core::new, then Mcu::reset; nothing stepped yet
McuVarsInit ==
    /\ core = Mcu_reset([core |-> Core_new, irq |-> Interrupt_new,
                         ram |-> [i \in RamCells |-> 0], banks |-> Bank_new]).core
    /\ McuGhostInit

\* psg::State::new and the AudioSender of stream_setup_for; nothing stepped yet
AudioVarsInit ==
    /\ psg = Psg_new
    /\ audio = AudioSender_new
    /\ astep = None

\* Core::new and St2205uAddressSpace::new at the frequency Handheld::new passes
ClockVarsInit ==
    /\ cycles = 0
    /\ btimer = BaseTimer_new(SYSTEM_FREQ)
    /\ timer_ticks = 0
    /\ cycles_required = 0
    /\ clk_op = "new"
    /\ aborted = None

\* the process at the entry of main
StartVarsInit ==
    boot = [at |-> "main", otp |-> None, flash |-> None, failed |-> None,
            stderr |-> <<>>, code |-> None, stepped |-> 0]

\* Lcd::new, nothing written to it yet
LcdVarsInit(plan) ==
    /\ lcd = Lcd_new
    /\ lcd_ev = None
    /\ lcd_n = 0
    /\ lcd_frames = 0
    /\ lcd_plan = plan

\* nothing pushed or popped yet
BtVarsInit ==
    /\ bt_due = {}
    /\ bt_op = [op |-> "init", ticked |-> FALSE, fired |-> FALSE, first |-> 0]

TmVarsInit ==
    /\ timer_blocks = TimerBlocksState_new
    /\ tm_op = [op |-> "new", prev |-> TimerBlocksState_new, ticks |-> 0, mask |-> 0, n |-> 0]

DmaVarsInit ==
    /\ dma = Dma_new
    /\ dma_op = [op |-> "new", n |-> 0]

AluVarsInit == alu_op = [op |-> "new", n |-> 0]

ChanVarsInit ==
    /\ chan = Channel_new(FRAME_SIZE)
    /\ chan_log = [added |-> <<>>, popped |-> <<>>, left |-> 0, calls |-> 0]

MulVarsInit ==
    /\ mul = Multiplicator_new
    /\ mul_op = [op |-> "new", high |-> 0, low |-> 0, writes |-> 0, b |-> 0,
                 panic |-> FALSE, overflow_checks |-> FALSE, n |-> 0]

StackVarsInit ==
    /\ stk = <<>>
    /\ stk_op = None

BankVarsInit(f) ==
    /\ banks = Bank_new
    /\ interrupt = Interrupt_new
    /\ ram = [i \in RamCells |-> 0]
    /\ cpu_acc = None
    /\ focus = f

BankInit == FlashVarsInit /\ McuVarsInit /\ AudioVarsInit /\ ClockVarsInit /\ StackVarsInit /\ LcdVarsInit(None) /\ StartVarsInit /\ BtVarsInit /\ TmVarsInit /\ DmaVarsInit /\ AluVarsInit /\ ChanVarsInit /\ MulVarsInit /\ \E f \in BankRegs : BankVarsInit(f)

\* write_u8 of a bank register half (the firmware of a behaviour reprograms one register)
BankRegWrite(address, value) ==
    /\ BankRegAt(address) = focus
    /\ banks' = write_bank_register(banks, address, value)
    /\ cpu_acc' = None
    /\ UNCHANGED <<interrupt, ram, focus>>
    /\ UNCHANGED flashVars
    /\ UNCHANGED audioVars
    /\ UNCHANGED clockVars
    /\ UNCHANGED mcuVars
    /\ UNCHANGED irqVars
    /\ UNCHANGED stackVars
    /\ UNCHANGED lcdVars
    /\ UNCHANGED startVars
    /\ UNCHANGED btVars
    /\ UNCHANGED tmVars
    /\ UNCHANGED dmaVars
    /\ UNCHANGED aluVars
    /\ UNCHANGED chanVars
    /\ UNCHANGED mulVars

\* set_interrupted, as interrupt entry and RTI call it
BankSetInterrupted(b) ==
    /\ interrupt' = set_interrupted(interrupt, b)
    /\ cpu_acc' = None
    /\ UNCHANGED <<banks, ram, focus>>
    /\ UNCHANGED flashVars
    /\ UNCHANGED audioVars
    /\ UNCHANGED clockVars
    /\ UNCHANGED mcuVars
    /\ UNCHANGED irqVars
    /\ UNCHANGED stackVars
    /\ UNCHANGED lcdVars
    /\ UNCHANGED startVars
    /\ UNCHANGED btVars
    /\ UNCHANGED tmVars
    /\ UNCHANGED dmaVars
    /\ UNCHANGED aluVars
    /\ UNCHANGED chanVars
    /\ UNCHANGED mulVars

\* read_u8 of a banked address
BankRead(a) ==
    LET t == AS_read_target(banks, interrupt, a)
    IN  /\ cpu_acc' = Some([op |-> "read", address |-> a, target |-> t,
                            value |-> IF t.kind = "ram" THEN Some(ram[t.at]) ELSE None])
        /\ UNCHANGED <<banks, interrupt, ram, focus>>
        /\ UNCHANGED flashVars
        /\ UNCHANGED audioVars
        /\ UNCHANGED clockVars
        /\ UNCHANGED mcuVars
        /\ UNCHANGED irqVars
        /\ UNCHANGED stackVars
        /\ UNCHANGED lcdVars
        /\ UNCHANGED startVars
        /\ UNCHANGED btVars
        /\ UNCHANGED tmVars
        /\ UNCHANGED dmaVars
        /\ UNCHANGED aluVars
        /\ UNCHANGED chanVars
        /\ UNCHANGED mulVars

\* write_u8 of a banked address
BankWrite(a, v) ==
    LET t == AS_write_target(banks, interrupt, a)
    IN  /\ cpu_acc' = Some([op |-> "write", address |-> a, target |-> t, value |-> Some(v)])
        /\ ram' = IF t.kind = "ram" THEN [ram EXCEPT ![t.at] = v] ELSE ram
        /\ UNCHANGED <<banks, interrupt, focus>>
        /\ UNCHANGED flashVars
        /\ UNCHANGED audioVars
        /\ UNCHANGED clockVars
        /\ UNCHANGED mcuVars
        /\ UNCHANGED irqVars
        /\ UNCHANGED stackVars
        /\ UNCHANGED lcdVars
        /\ UNCHANGED startVars
        /\ UNCHANGED btVars
        /\ UNCHANGED tmVars
        /\ UNCHANGED dmaVars
        /\ UNCHANGED aluVars
        /\ UNCHANGED chanVars
        /\ UNCHANGED mulVars

BankNext ==
    \/ \E address \in 48 .. 55, value \in BankBytes : BankRegWrite(address, value)
    \/ \E b \in BOOLEAN : BankSetInterrupted(b)
    \/ \E a \in BankProbes : BankRead(a)
    \/ \E a \in BankProbes : BankWrite(a, ProbeByte)

SpecBank == BankInit /\ [][BankNext]_vars

\* The translation as the claim words it, from the registers' contents.
\* the register the claim selects for a banked address
ClaimRegister(a) ==
    IF a <= 16383 THEN banks.brr
    ELSE IF a >= 32768 THEN banks.drr
    ELSE IF interrupt.interrupted THEN banks.irr ELSE banks.prr

ClaimShift(a) == IF a <= 16383 THEN 13 ELSE IF a >= 32768 THEN 15 ELSE 14

\* the 16-bit content of a register: its stored bits, the non-existent bits being 1
ClaimContent(r) == r.l + 256 * r.h + (65535 - (r.l_mask + 256 * r.h_mask))

\* the writable bits of a register alone
ClaimWritable(r) == r.l + 256 * r.h

ClaimTarget(a) ==
    IF ClaimContent(ClaimRegister(a)) >= 32768
    THEN [kind |-> "ram", at |-> a % 32768]
    ELSE [kind |-> "machine",
          at |-> ClaimContent(ClaimRegister(a)) * (2 ^ ClaimShift(a))
                    + (a % (2 ^ ClaimShift(a)))]

\* the region and offset the claim derives from the writable bits and the address
ClaimRegion(a) ==
    parse_machine_addr(ClaimWritable(ClaimRegister(a)) * (2 ^ ClaimShift(a))
                          + (a % (2 ^ ClaimShift(a))))

\* Addresses spread over 0x2000..=0xFFFF, checked in every state besides the probes.
WindowSamples == BankProbes \cup {8192 + 8191 * k : k \in 0 .. 6}

(* C1: for every banked CPU address a and every content of the bank registers, a
   read and a write both go to on-chip RAM at a mod 0x8000 when bit 15 of the
   selected register is 1 and otherwise to machine address
   (reg << shift) | (a & (2^shift - 1)), with BRR/13, IRR or PRR/14 by the
   interrupted latch, DRR/15; the region and offset reached are those given by the
   register's writable bits and a.  Every access made went where this says. *)
C1_BankTranslation ==
    /\ \A a \in WindowSamples :
          /\ AS_read_target(banks, interrupt, a) = ClaimTarget(a)
          /\ AS_write_target(banks, interrupt, a) = ClaimTarget(a)
          /\ ClaimTarget(a).kind = "machine"
                => parse_machine_addr(AS_read_target(banks, interrupt, a).at) = ClaimRegion(a)
    /\ cpu_acc # None => cpu_acc[1].target = ClaimTarget(cpu_acc[1].address)

\* inside a handler, a write to 0x4000 went through IRR to the LCD (PRR selects OTP)
C1_Witness ==
    /\ cpu_acc # None
    /\ cpu_acc[1].op = "write"
    /\ cpu_acc[1].address = 16384
    /\ interrupt.interrupted
    /\ U16_u16(banks.irr) = 384
    /\ cpu_acc[1].target.kind = "machine"
    /\ parse_machine_addr(cpu_acc[1].target.at) = [addr_type |-> "Video", offset |-> 0]

(***************************************************************************)
(* The microcontroller stepped on arbitrary firmware: each step executes   *)
(* an instruction of the set below (what the decoder finds at pc), and the *)
(* base timer and the timers report what their update() calls return.      *)
(***************************************************************************)
MaxSteps == 5

ImpliedOps == {"Sei", "Cli", "Php", "Plp", "Rti"}

\* 0x46 has the bits of Timer0, Timer1 and BaseTimer
ImmBytes == {70}

ZpTargets == {IENAL}

Instructions ==
    {[opcode |-> o, mode |-> "Implied", operand |-> 0] : o \in ImpliedOps}
      \cup {[opcode |-> "Lda", mode |-> "Immediate", operand |-> v] : v \in ImmBytes}
      \cup {[opcode |-> "Sta", mode |-> "ZeroPage", operand |-> z] : z \in ZpTargets}

\* what base_timer.update() and timer.update() return in a step: nothing, the base
\* timer, or the base timer with Timer0 and Timer1
TimerReports ==
    {[bt |-> FALSE, timers_int |-> 0], [bt |-> TRUE, timers_int |-> 0],
     [bt |-> TRUE, timers_int |-> 3]}

\* The bit of a source in IREQ and IENA, as the data sheet numbers them.
SourceBit(n) ==
    CASE n = "Intx" -> 0 [] n = "Timer0" -> 1 [] n = "Timer1" -> 2 [] n = "Timer2" -> 3
      [] n = "Timer3" -> 4 [] n = "PortATransition" -> 5 [] n = "BaseTimer" -> 6
      [] n = "LcdBuffer" -> 7 [] n = "SpiTxEmpty" -> 8 [] n = "SpiRxReady" -> 9
      [] n = "UartTx" -> 10 [] n = "UartRx" -> 11 [] n = "Usb" -> 12
      [] n = "Pcm" -> 14 [] n = "Rtc" -> 15

\* the sources the step asserts, from what the timers report
Fired(bt, timers_int) ==
    (IF bt THEN {"BaseTimer"} ELSE {})
      \cup {n \in {"Timer0", "Timer1", "Timer2", "Timer3"} :
               Bit(timers_int, SourceBit(n) - 1) = 1}

\* the handler's stack depth after an instruction (frame is None outside a handler)
FrameAfter(fr, ins) ==
    IF fr = None \/ ins.opcode = "Rti" THEN None
    ELSE IF ins.opcode \in {"Pha", "Php"}
         THEN Some([fr[1] EXCEPT !.depth = @ + 1, !.pushes = @ + 1])
    ELSE IF ins.opcode \in {"Pla", "Plp"}
         THEN IF fr[1].depth = 0 THEN Some([fr[1] EXCEPT !.balanced = FALSE])
              ELSE Some([fr[1] EXCEPT !.depth = @ - 1])
    ELSE fr

McuInit == FlashVarsInit /\ McuVarsInit /\ AudioVarsInit /\ ClockVarsInit /\ StackVarsInit /\ LcdVarsInit(None) /\ StartVarsInit /\ BtVarsInit /\ TmVarsInit /\ DmaVarsInit /\ AluVarsInit /\ ChanVarsInit /\ MulVarsInit /\ BankVarsInit("none")

McuStep(ins, bt, timers_int) ==
    \E m \in {[core |-> core, irq |-> interrupt, ram |-> ram, banks |-> banks]} :
    \E m1 \in {Core_step(m, ins)} :
    \E m2 \in {before_dispatch(m, ins, bt, timers_int)} :
    \E irq \in {highest_priority_interrupt(m2.irq)} :
    \E taken \in {dispatch_due(m2) /\ irq # None} :
    \E m3 \in {dispatch(m2)} :
    \E ok \in {{n \in Fired(bt, timers_int) : Bit(U16_u16(m1.irq.iena), SourceBit(n)) = 1}} :
    \E open \in {FrameAfter(frame, ins)} :
        /\ steps < MaxSteps
        /\ m1.core.sp \in StackWindow
        /\ m3.core.sp \in StackWindow
        /\ core' = m3.core
        /\ interrupt' = m3.irq
        /\ ram' = m3.ram
        /\ ev' = [op |-> ins.opcode,
                  dec |-> [pc |-> m2.core.pc, sp |-> m2.core.sp, flags |-> m2.core.flags,
                           latch |-> m2.irq.interrupted,
                           shadow |-> U16_u16(m2.irq.shadow_ireq),
                           open |-> open # None],
                  irq |-> IF taken THEN irq ELSE None,
                  was_armed |-> taken /\ irq[1] \in (armed \cup ok),
                  rti |-> IF ins.opcode = "Rti" THEN frame ELSE None]
        /\ armed' = IF taken THEN (armed \cup ok) \ {irq[1]} ELSE (armed \cup ok)
        /\ asserted' = [n \in McuSources |-> asserted[n] + (IF n \in ok THEN 1 ELSE 0)]
        /\ dispatched' =
              [n \in McuSources |->
                  dispatched[n] + (IF taken /\ irq = Some(n) THEN 1 ELSE 0)]
        /\ frame' = IF taken
                    THEN Some([pc |-> m2.core.pc, flags |-> m2.core.flags,
                               sp |-> m2.core.sp, depth |-> 0, pushes |-> 0,
                               balanced |-> TRUE])
                    ELSE open
        /\ steps' = steps + 1
        /\ UNCHANGED <<banks, cpu_acc, focus>>
        /\ UNCHANGED flashVars
        /\ UNCHANGED audioVars
        /\ UNCHANGED clockVars
        /\ UNCHANGED irqVars
        /\ UNCHANGED stackVars
        /\ UNCHANGED lcdVars
        /\ UNCHANGED startVars
        /\ UNCHANGED btVars
        /\ UNCHANGED tmVars
        /\ UNCHANGED dmaVars
        /\ UNCHANGED aluVars
        /\ UNCHANGED chanVars
        /\ UNCHANGED mulVars

McuNext ==
    \E ins \in Instructions, r \in TimerReports : McuStep(ins, r.bt, r.timers_int)

SpecMcu == McuInit /\ [][McuNext]_vars

\* The machine of the current state, as the operators take it.
Now == [core |-> core, irq |-> interrupt, ram |-> ram, banks |-> banks]

\* The flag byte as the claim packs it: N V - - D I Z C.
ClaimPacked(fl) ==
    128 * B2N(fl.negative) + 64 * B2N(fl.overflow) + 8 * B2N(fl.decimal)
      + 4 * B2N(fl.interrupt_disable) + 2 * B2N(fl.zero) + B2N(fl.carry)

\* The vector addresses as the claim lists them.
ClaimVector(n) ==
    CASE n = "Intx" -> 32760 [] n = "Timer0" -> 32758 [] n = "Timer1" -> 32756
      [] n = "Timer2" -> 32754 [] n = "Timer3" -> 32752 [] n = "PortATransition" -> 32750
      [] n = "BaseTimer" -> 32748 [] n = "LcdBuffer" -> 32746 [] n = "SpiTxEmpty" -> 32744
      [] n = "SpiRxReady" -> 32742 [] n = "UartTx" -> 32740 [] n = "UartRx" -> 32738
      [] n = "Usb" -> 32736 [] n = "Pcm" -> 32732 [] n = "Rtc" -> 32730

(* C2: a step dispatches only if, after its instruction and timer updates, a request
   is pending in the shadow register, the interrupt-disable flag is clear and the
   interrupted latch is false; in particular never between an interrupt entry and
   the next RTI. *)
C2_DispatchOnlyWhenDue ==
    ev.irq # None =>
        /\ ev.dec.shadow # 0
        /\ ~ev.dec.flags.interrupt_disable
        /\ ~ev.dec.latch
        /\ ~ev.dec.open

\* in a handler, after CLI, with a request pending: nothing was dispatched
C2_Witness ==
    /\ ev.op = "Cli"
    /\ ev.dec.open
    /\ ev.dec.shadow # 0
    /\ ~ev.dec.flags.interrupt_disable
    /\ ev.irq = None

(* C3: when source n is dispatched with program counter p, flags f and stack pointer
   s, the bytes p_hi, p_lo and the packed flags (bits 4 and 5 zero) are at 0x100|s,
   0x100|(s-1), 0x100|(s-2), SP is s-3 mod 256, the interrupted latch is true and PC
   is the little-endian word read at the vector address of n; the vector address
   used for every source is the one of the table. *)
C3_InterruptEntry ==
    /\ \A n \in Interrupts : interrupt_vector(n) = ClaimVector(n)
    /\ ev.irq # None =>
          LET p == ev.dec.pc
              s == ev.dec.sp
              v == ClaimVector(ev.irq[1])
          IN  /\ ram[256 + s] = p \div 256
              /\ ram[256 + ((s + 255) % 256)] = p % 256
              /\ ram[256 + ((s + 254) % 256)] = ClaimPacked(ev.dec.flags)
              /\ Bit(ram[256 + ((s + 254) % 256)], 4) = 0
              /\ Bit(ram[256 + ((s + 254) % 256)], 5) = 0
              /\ core.sp = (s + 253) % 256
              /\ interrupt.interrupted
              /\ core.pc = AS_read_u8(Now, v) + 256 * AS_read_u8(Now, v + 1)

\* the base timer dispatched with SP = 0: the pushes wrap from 0x100 to 0x1FF, and
\* PC is the handler address held at 0x7FEC
C3_Witness ==
    /\ ev.irq = Some("BaseTimer")
    /\ ev.dec.sp = 0
    /\ core.sp = 253
    /\ core.pc = 17248

(* C4: the source a step dispatches is the lowest-numbered bit set in the shadow
   register at that moment, and every source asserted with its IENA bit set and not
   dispatched yet has a higher bit: such sources are dispatched in increasing bit
   order. *)
C4_LowestBitFirst ==
    ev.irq # None =>
        /\ Bit(ev.dec.shadow, SourceBit(ev.irq[1])) = 1
        /\ \A i \in 0 .. 15 : Bit(ev.dec.shadow, i) = 1 => SourceBit(ev.irq[1]) <= i
        /\ \A n \in armed : SourceBit(ev.irq[1]) < SourceBit(n)

\* Timer0 was dispatched, now Timer1 is, the base timer still waits
C4_Witness ==
    /\ ev.irq = Some("Timer1")
    /\ "BaseTimer" \in armed
    /\ dispatched["Timer0"] = 1

(* C6: a dispatch of source n consumes a request latched by an assert_interrupt(n)
   that found IENA bit n set since the previous dispatch of n, whatever the handler
   executed and whatever the visible IREQ shows; the number of dispatches of n
   never exceeds the number of such assertions. *)
C6_OneDispatchPerRequest ==
    /\ ev.irq # None => ev.was_armed
    /\ \A n \in McuSources : dispatched[n] <= asserted[n]

\* the handler of the base timer returned with interrupts enabled and the bit still
\* set in the visible IREQ: the base timer was not dispatched again
C6_Witness ==
    /\ ev.op = "Rti"
    /\ ev.irq = None
    /\ ~ev.dec.flags.interrupt_disable
    /\ ~ev.dec.latch
    /\ dispatched["BaseTimer"] = 1
    /\ Bit(U16_u16(interrupt.ireq), 6) = 1

(* C8: when RTI executes in a handler whose pushes and pops were balanced (every pop
   took a byte the handler had pushed, and every byte pushed was popped), PC, the six
   flags and SP are what they were immediately before the dispatch, and the
   interrupted latch is false. *)
C8_RtiRestores ==
    (ev.op = "Rti" /\ ev.rti # None /\ ev.rti[1].balanced /\ ev.rti[1].depth = 0) =>
        /\ ev.dec.pc = ev.rti[1].pc
        /\ ev.dec.flags = ev.rti[1].flags
        /\ ev.dec.sp = ev.rti[1].sp
        /\ ~ev.dec.latch

\* RTI at the end of a handler that pushed and popped
C8_Witness ==
    /\ ev.op = "Rti"
    /\ ev.rti # None
    /\ ev.rti[1].balanced
    /\ ev.rti[1].depth = 0
    /\ ev.rti[1].pushes >= 1

(***************************************************************************)
(* The interrupt controller driven through its registers and by            *)
(* peripherals calling assert_interrupt.                                   *)
(***************************************************************************)
MaxAsserts == 2

IrqSources == {"Intx", "BaseTimer", "SpiTxEmpty", "Pcm", "Rtc"}

\* 0x41 has bits 0 and 6, 0xBF all but bit 6
IrqBytes == {0, 65, 191}

IrqRegisters == {IREQL, IREQH, IENAL, IENAH}

IrqInit == FlashVarsInit /\ McuVarsInit /\ AudioVarsInit /\ ClockVarsInit /\ StackVarsInit /\ LcdVarsInit(None) /\ StartVarsInit /\ BtVarsInit /\ TmVarsInit /\ DmaVarsInit /\ AluVarsInit /\ ChanVarsInit /\ MulVarsInit /\ BankVarsInit("none")

\* a peripheral calls assert_interrupt
IrqAssert(n) ==
    /\ irq_asserts < MaxAsserts
    /\ interrupt' = assert_interrupt(interrupt, n)
    /\ irq_op' = Some([op |-> "assert", irq |-> n, address |-> 0, value |-> 0,
                       before |-> interrupt])
    /\ irq_asserts' = irq_asserts + 1
    /\ UNCHANGED <<banks, ram, cpu_acc, focus>>
    /\ UNCHANGED flashVars
    /\ UNCHANGED audioVars
    /\ UNCHANGED clockVars
    /\ UNCHANGED mcuVars
    /\ UNCHANGED stackVars
    /\ UNCHANGED lcdVars
    /\ UNCHANGED startVars
    /\ UNCHANGED btVars
    /\ UNCHANGED tmVars
    /\ UNCHANGED dmaVars
    /\ UNCHANGED aluVars
    /\ UNCHANGED chanVars
    /\ UNCHANGED mulVars

\* the CPU writes one of IREQL, IREQH, IENAL, IENAH
IrqWrite(address, value) ==
    /\ interrupt' = AS_write_u8(Now, address, value).irq
    /\ irq_op' = Some([op |-> "write", irq |-> "", address |-> address, value |-> value,
                       before |-> interrupt])
    /\ UNCHANGED irq_asserts
    /\ UNCHANGED <<banks, ram, cpu_acc, focus>>
    /\ UNCHANGED flashVars
    /\ UNCHANGED audioVars
    /\ UNCHANGED clockVars
    /\ UNCHANGED mcuVars
    /\ UNCHANGED stackVars
    /\ UNCHANGED lcdVars
    /\ UNCHANGED startVars
    /\ UNCHANGED btVars
    /\ UNCHANGED tmVars
    /\ UNCHANGED dmaVars
    /\ UNCHANGED aluVars
    /\ UNCHANGED chanVars
    /\ UNCHANGED mulVars

IrqNext ==
    \/ \E n \in IrqSources : IrqAssert(n)
    \/ \E address \in IrqRegisters, value \in IrqBytes : IrqWrite(address, value)

SpecIrq == IrqInit /\ [][IrqNext]_vars

\* register r1 is r0 with bit b set and every other bit as it was
BitSetOnly(r0, r1, b) ==
    \A i \in 0 .. 15 :
        Bit(U16_u16(r1), i) = IF i = b THEN 1 ELSE Bit(U16_u16(r0), i)

\* what assert_interrupt(n) has to do from state st0 to state st1
AssertEffect(st0, st1, n) ==
    /\ IF Bit(U16_u16(st0.iena), SourceBit(n)) = 1
       THEN /\ BitSetOnly(st0.ireq, st1.ireq, SourceBit(n))
            /\ BitSetOnly(st0.shadow_ireq, st1.shadow_ireq, SourceBit(n))
       ELSE /\ st1.ireq = st0.ireq
            /\ st1.shadow_ireq = st0.shadow_ireq
    /\ st1.iena = st0.iena

(* C5: assert_interrupt(n) sets bit n in both the visible IREQ and the shadow register
   when IENA bit n is 1 and changes neither when it is 0; no other bit of IREQ, the
   shadow register or IENA changes.  Checked for the call made and, in every state,
   for each of the fifteen sources. *)
C5_AssertInterrupt ==
    /\ \A n \in Interrupts : AssertEffect(interrupt, assert_interrupt(interrupt, n), n)
    /\ (irq_op # None /\ irq_op[1].op = "assert") =>
           AssertEffect(irq_op[1].before, interrupt, irq_op[1].irq)

\* PCM asserted with its IENA bit set while another request was already latched
C5_Witness ==
    /\ irq_op # None
    /\ irq_op[1].op = "assert"
    /\ irq_op[1].irq = "Pcm"
    /\ Bit(U16_u16(irq_op[1].before.iena), 14) = 1
    /\ U16_u16(irq_op[1].before.ireq) = 1
    /\ U16_u16(interrupt.ireq) = 16385

\* byte b1 is the bitwise AND of byte b0 and byte v
IsAnd(b0, v, b1) == \A i \in 0 .. 7 : Bit(b1, i) = Bit(b0, i) * Bit(v, i)

(* C7: a CPU write of v to IREQL (IREQH) replaces that byte of the visible IREQ by
   old AND v; the other IREQ byte, the shadow register and IENA are unchanged. *)
C7_IreqWriteClears ==
    (irq_op # None /\ irq_op[1].op = "write" /\ irq_op[1].address \in {IREQL, IREQH}) =>
        LET before == irq_op[1].before
        IN  /\ IF irq_op[1].address = IREQL
               THEN /\ IsAnd(before.ireq.l, irq_op[1].value, interrupt.ireq.l)
                    /\ interrupt.ireq.h = before.ireq.h
               ELSE /\ IsAnd(before.ireq.h, irq_op[1].value, interrupt.ireq.h)
                    /\ interrupt.ireq.l = before.ireq.l
            /\ interrupt.shadow_ireq = before.shadow_ireq
            /\ interrupt.iena = before.iena

\* 0xBF written to IREQL holding 0x41: bit 6 cleared, bit 0 kept, no bit set
C7_Witness ==
    /\ irq_op # None
    /\ irq_op[1].op = "write"
    /\ irq_op[1].address = IREQL
    /\ irq_op[1].value = 191
    /\ irq_op[1].before.ireq.l = 65
    /\ interrupt.ireq.l = 1
    /\ interrupt.shadow_ireq.l = 65

(***************************************************************************)
(* The flash driven by arbitrary bus writes and reads.                     *)
(***************************************************************************)
\* Longest run of writes the model lets accumulate in the history without a clear.
MaxPending == 5

\* The unlock writes that occur in the two command prefixes.
UnlockWrites ==
    { CommandWrite(2730, 170), CommandWrite(1365, 85),
      CommandWrite(2730, 160), CommandWrite(2730, 128) }

\* Other writes the bus issues: data to program, and the three erase selectors.
DataWrites ==
    { CommandWrite(256, 66), CommandWrite(256, 80),
      CommandWrite(256, 48), CommandWrite(2730, 16) }

FlashWrites == UnlockWrites \cup DataWrites

\* The writes the bus issues while no command is complete (they are only pushed):
\* every pattern entry, and one write that occurs in no pattern.
PushWrites == UnlockWrites \cup {CommandWrite(256, 66)}

\* Reads are issued at the tracked offsets, and at 0xAAA while the status mode is
\* keyed to it (the byte stored at 0xAAA is not tracked).
FlashReadAddrs == FlashCells \cup {2730}

\* The observer of the bus writes, independent of the flash's own history: seen is
\* the length of the longest prefix of BYTE_PROGRAM that the most recent writes
\* spell, and clean says that none of those writes completed a command.
UnlockStep(u, w, handled) ==
    LET seen == IF u.seen < 3 /\ w = BYTE_PROGRAM[u.seen + 1] THEN u.seen + 1
                ELSE IF w = BYTE_PROGRAM[1] THEN 1
                ELSE 0
    IN  [seen |-> seen,
         clean |-> IF seen = 0 THEN TRUE
                   ELSE IF seen = 1 THEN ~handled
                   ELSE u.clean /\ ~handled]

FlashWrite(w) ==
    /\ Handles(flash) \/ (w \in PushWrites /\ pushes < MaxPending)
    /\ flash' = Flash_write_u8(flash, w.address, w.value)
    /\ flash_op' = Some([branch |-> Flash_branch(flash, w.address, w.value),
                         address |-> w.address, value |-> w.value])
    /\ unlock' = UnlockStep(unlock, w, Handles(flash))
    /\ pushes' = IF Handles(flash) THEN 0 ELSE pushes + 1
    /\ flash_out' = None
    /\ UNCHANGED <<cmd_last, cmd_prev, mode_over, dump>>
    /\ UNCHANGED bankVars
    /\ UNCHANGED audioVars
    /\ UNCHANGED clockVars
    /\ UNCHANGED mcuVars
    /\ UNCHANGED irqVars
    /\ UNCHANGED stackVars
    /\ UNCHANGED lcdVars
    /\ UNCHANGED startVars
    /\ UNCHANGED btVars
    /\ UNCHANGED tmVars
    /\ UNCHANGED dmaVars
    /\ UNCHANGED aluVars
    /\ UNCHANGED chanVars
    /\ UNCHANGED mulVars

FlashRead(a) ==
    /\ \/ a \in FlashCells
       \/ flash.read_mode.mode = "Status" /\ flash.read_mode.address = a
    /\ flash_out' = Some([address |-> a, value |-> Flash_read_u8(flash, a)])
    /\ UNCHANGED <<flash, flash_op, unlock, pushes, cmd_last, cmd_prev, mode_over, dump>>
    /\ UNCHANGED bankVars
    /\ UNCHANGED audioVars
    /\ UNCHANGED clockVars
    /\ UNCHANGED mcuVars
    /\ UNCHANGED irqVars
    /\ UNCHANGED stackVars
    /\ UNCHANGED lcdVars
    /\ UNCHANGED startVars
    /\ UNCHANGED btVars
    /\ UNCHANGED tmVars
    /\ UNCHANGED dmaVars
    /\ UNCHANGED aluVars
    /\ UNCHANGED chanVars
    /\ UNCHANGED mulVars

FlashInit == FlashVarsInit /\ McuVarsInit /\ AudioVarsInit /\ ClockVarsInit /\ StackVarsInit /\ LcdVarsInit(None) /\ StartVarsInit /\ BtVarsInit /\ TmVarsInit /\ DmaVarsInit /\ AluVarsInit /\ ChanVarsInit /\ MulVarsInit /\ BankVarsInit("none")

FlashNext ==
    \/ \E w \in FlashWrites : FlashWrite(w)
    \/ \E a \in FlashReadAddrs : FlashRead(a)

SpecFlash == FlashInit /\ [][FlashNext]_vars

\* the bytes of the tracked offsets after a straight overwrite of offset a mod 0x200000
Overwritten(data, a, v) ==
    [c \in FlashCells |-> IF c = a % CHIP_CAPACITY THEN v ELSE data[c]]

(* C9, as stated: whenever the three unlock writes (0xAAA,0xAA), (0x555,0x55),
   (0xAAA,0xA0) were the last three writes to the flash, the next write (a, v)
   stores v at offset a mod 0x200000 and changes no other byte. *)
C9_AfterUnlockWritesProgram ==
    [][\A w \in FlashWrites :
          (unlock.seen = 3 /\ FlashWrite(w))
              => flash'.data = Overwritten(flash.data, w.address, w.value)]_vars

(* C9, amended: whenever the three unlock writes were the last three writes to
   the flash and none of them completed a command that was pending (it was not
   taken as the final write of an erase or of an earlier byte program), the next
   write (a, v) stores v at offset a mod 0x200000 as a straight overwrite,
   whatever the old byte, and changes no other byte. *)
C9_UnlockedWriteOverwrites ==
    [][\A w \in FlashWrites :
          (unlock.seen = 3 /\ unlock.clean /\ FlashWrite(w))
              => flash'.data = Overwritten(flash.data, w.address, w.value)]_vars

\* a byte program has just replaced a tracked byte by one with bits the old byte lacked
C9_Witness ==
    /\ flash_op # None
    /\ flash_op[1].branch = "byte_program"
    /\ flash_op[1].address = 256
    /\ flash_op[1].value = 66
    /\ flash.data[256] = 66
    /\ flash.data[4352] = FlashImageByte

RecognizedCommands == {"byte_program", "sector_erase", "block_erase", "chip_erase"}

(* C10: when the last write to the flash was the final write, at address a, of a
   byte program, sector erase, block erase or chip erase, every read made since
   returned 0xC0 if it was at exactly a and the stored data byte otherwise. *)
C10_StatusOnlyAtCommandAddress ==
    (flash_out # None /\ flash_op # None /\ flash_op[1].branch \in RecognizedCommands)
        => flash_out[1].value =
              IF flash_out[1].address = flash_op[1].address THEN 192
              ELSE flash.data[flash_out[1].address % CHIP_CAPACITY]

\* after a sector erase whose final write was at 0x100, a read of 0x1100 returned its data
C10_Witness ==
    /\ flash_out # None /\ flash_op # None
    /\ flash_op[1].branch = "sector_erase"
    /\ flash_op[1].address = 256
    /\ flash_out[1] = [address |-> 4352, value |-> FlashImageByte]
    /\ Flash_read_u8(flash, 256) = 192

(***************************************************************************)
(* The flash driven by commands: the bus writes the two command prefixes   *)
(* (after at most MaxJunk other writes), ends them with any write of the   *)
(* alphabet, reads, and at shutdown the emulator dumps the flash.          *)
(***************************************************************************)
MaxJunk == 1

\* The final writes of the commands: a byte to program, sector erases at the tracked
\* offset 0x100 and at 0x200 of the same sector, a block erase and the chip erase.
CmdData ==
    { CommandWrite(256, 66), CommandWrite(256, 80), CommandWrite(512, 80),
      CommandWrite(256, 48), CommandWrite(2730, 16) }

CmdWrites == UnlockWrites \cup CmdData

\* the non-empty prefixes of the two command patterns
CmdPrefixes ==
    {SubSeq(BYTE_PROGRAM, 1, k) : k \in 1 .. 3} \cup {SubSeq(ERASE, 1, k) : k \in 1 .. 5}

\* with w the history spells a command prefix, after at most MaxJunk writes
Continues(fl, w) ==
    \/ pushes < MaxJunk /\ w = CommandWrite(256, 66)
    \/ \E pre \in CmdPrefixes :
          /\ Len(pre) + MaxJunk >= pushes + 1
          /\ ends_with(RingBuf_push(fl.command_writes, w), pre)

\* HandheldAddressSpace::read_u8, for the flash and the OTP
Handheld_read_u8(fl, address) ==
    LET region(parsed) ==
            CASE parsed.addr_type = "Flash" -> Flash_read_u8(fl, parsed.offset)
              [] parsed.addr_type = "Otp" -> OtpImage(parsed.offset % OTP_SIZE)
    IN  region(parse_machine_addr(address))

\* Mcu::read_machine_area: the bytes at start + i of the machine address space,
\* for the offsets i the model tracks
read_machine_area(fl, start, offsets) ==
    [i \in offsets |-> Handheld_read_u8(fl, start + i)]

\* Handheld::make_flash_dump
make_flash_dump(fl) == read_machine_area(fl, Pow2(25), FlashCells)

CmdWrite(w) ==
    /\ dump = None
    /\ Handles(flash) \/ Continues(flash, w)
    /\ flash' = Flash_write_u8(flash, w.address, w.value)
    /\ flash_op' = Some([branch |-> Flash_branch(flash, w.address, w.value),
                         address |-> w.address, value |-> w.value])
    /\ flash_out' = None
    /\ pushes' = IF Handles(flash) THEN 0 ELSE pushes + 1
    /\ cmd_last' = IF Handles(flash) THEN flash_op' ELSE cmd_last
    /\ cmd_prev' = IF Handles(flash) THEN cmd_last ELSE cmd_prev
    /\ mode_over' = ~Handles(flash)
    /\ UNCHANGED <<unlock, dump>>
    /\ UNCHANGED bankVars
    /\ UNCHANGED audioVars
    /\ UNCHANGED clockVars
    /\ UNCHANGED mcuVars
    /\ UNCHANGED irqVars
    /\ UNCHANGED stackVars
    /\ UNCHANGED lcdVars
    /\ UNCHANGED startVars
    /\ UNCHANGED btVars
    /\ UNCHANGED tmVars
    /\ UNCHANGED dmaVars
    /\ UNCHANGED aluVars
    /\ UNCHANGED chanVars
    /\ UNCHANGED mulVars

CmdRead(a) ==
    /\ dump = None
    /\ \/ a \in FlashCells
       \/ cmd_last # None /\ cmd_last[1].address = a
    /\ flash_out' = Some([address |-> a, value |-> Flash_read_u8(flash, a)])
    /\ mode_over' = (mode_over \/ (cmd_last # None /\ cmd_last[1].address # a))
    /\ UNCHANGED <<flash, flash_op, unlock, pushes, cmd_last, cmd_prev, dump>>
    /\ UNCHANGED bankVars
    /\ UNCHANGED audioVars
    /\ UNCHANGED clockVars
    /\ UNCHANGED mcuVars
    /\ UNCHANGED irqVars
    /\ UNCHANGED stackVars
    /\ UNCHANGED lcdVars
    /\ UNCHANGED startVars
    /\ UNCHANGED btVars
    /\ UNCHANGED tmVars
    /\ UNCHANGED dmaVars
    /\ UNCHANGED aluVars
    /\ UNCHANGED chanVars
    /\ UNCHANGED mulVars

\* graceful shutdown with --save-file: nothing runs after the dump
CmdDump ==
    /\ dump = None
    /\ dump' = Some(make_flash_dump(flash))
    /\ UNCHANGED <<flash, flash_out, flash_op, unlock, pushes, cmd_last, cmd_prev, mode_over>>
    /\ UNCHANGED bankVars
    /\ UNCHANGED audioVars
    /\ UNCHANGED clockVars
    /\ UNCHANGED mcuVars
    /\ UNCHANGED irqVars
    /\ UNCHANGED stackVars
    /\ UNCHANGED lcdVars
    /\ UNCHANGED startVars
    /\ UNCHANGED btVars
    /\ UNCHANGED tmVars
    /\ UNCHANGED dmaVars
    /\ UNCHANGED aluVars
    /\ UNCHANGED chanVars
    /\ UNCHANGED mulVars

CmdInit == FlashVarsInit /\ McuVarsInit /\ AudioVarsInit /\ ClockVarsInit /\ StackVarsInit /\ LcdVarsInit(None) /\ StartVarsInit /\ BtVarsInit /\ TmVarsInit /\ DmaVarsInit /\ AluVarsInit /\ ChanVarsInit /\ MulVarsInit /\ BankVarsInit("none")

CmdNext ==
    \/ \E w \in CmdWrites : CmdWrite(w)
    \/ \E a \in FlashReadAddrs \cup {512} : CmdRead(a)
    \/ CmdDump

SpecCmd == CmdInit /\ [][CmdNext]_vars

(* C11: once a write, or a read at another address, has followed the final write
   (k, v) of a byte program, sector erase, block erase or chip erase, a read at k
   returns the stored byte and no longer the status 0xC0. *)
C11_StatusModeEnds ==
    (/\ cmd_last # None
     /\ cmd_last[1].branch \in RecognizedCommands
     /\ mode_over
     /\ flash_out # None
     /\ flash_out[1].address = cmd_last[1].address)
        => flash_out[1].value = FlashByte(flash.data, cmd_last[1].address)

(* C12: after the five-write erase prefix and the write (0xAAA, 0x10), with no
   write since, the reads of the flash addresses return 0xFF, whatever the flash
   held and however many chip erases came before; the addresses are read one
   after the other, so the read at 0xAAA comes after a read elsewhere. *)
C12_ChipEraseReadsFF ==
    (/\ flash_op # None
     /\ flash_op[1].branch = "chip_erase"
     /\ flash_out # None
     /\ (flash_out[1].address # 2730 \/ mode_over))
        => flash_out[1].value = 255

\* the last two commands were a byte program at a tracked offset and then a sector
\* erase whose final write fell in the same sector, and no write has followed
ProgramThenSectorErase ==
    /\ flash_op # None /\ cmd_prev # None
    /\ flash_op = cmd_last
    /\ flash_op[1].branch = "sector_erase"
    /\ cmd_prev[1].branch = "byte_program"
    /\ cmd_prev[1].address \in FlashCells
    /\ flash_op[1].address \div 4096 = cmd_prev[1].address \div 4096

(* C13, as stated: after a byte program of (addr, v) followed by a sector erase
   whose final write (x, 0x50) has x in the sector of addr, a read at addr
   returns 0xFF. *)
C13_EraseThenReadFF ==
    (ProgramThenSectorErase /\ flash_out # None
        /\ flash_out[1].address = cmd_prev[1].address)
        => flash_out[1].value = 255

(* C13, amended: after a byte program of (addr, v) followed by a sector erase
   whose final write (x, 0x50) has x in the sector of addr, the byte stored at
   addr is 0xFF; a read at addr returns 0xFF if x differs from addr, and the
   status 0xC0 if x = addr and the read comes right after the erase. *)
C13_EraseThenReadFFOrStatus ==
    (ProgramThenSectorErase /\ flash_out # None
        /\ flash_out[1].address = cmd_prev[1].address)
        => /\ flash.data[cmd_prev[1].address] = 255
           /\ flash_op[1].address # cmd_prev[1].address => flash_out[1].value = 255
           /\ (flash_op[1].address = cmd_prev[1].address /\ ~mode_over)
                 => flash_out[1].value = 192

\* 0x42 was programmed at 0x100, the sector was erased through 0x200, and 0x100 read 0xFF
C13_Witness ==
    /\ ProgramThenSectorErase
    /\ cmd_prev[1].address = 256 /\ cmd_prev[1].value = 66
    /\ flash_op[1].address = 512
    /\ flash_out = Some([address |-> 256, value |-> 255])

(* C14: a flash write that is not the final write of a byte program, sector erase,
   block erase or chip erase is only appended to the command history: no flash
   byte changes, the history is the old one with the write pushed, and the read
   mode stays; also when the write follows the erase prefix without being an
   erase selector. *)
C14_OtherWritesOnlyAppend ==
    [][\A w \in CmdWrites :
          (CmdWrite(w) /\ Flash_branch(flash, w.address, w.value) \notin RecognizedCommands)
              => /\ flash'.data = flash.data
                 /\ flash'.command_writes =
                       RingBuf_push(flash.command_writes, CommandWrite(w.address, w.value))
                 /\ flash'.read_mode = flash.read_mode]_vars

(* C15: after the final write of a byte program, sector erase, block erase or
   chip erase the command history is empty, and a write changes a flash byte only
   if the history held at least as many writes made since the command before it
   as its unlock sequence has: three for a byte program, five for an erase.  So
   one unlock sequence never programs two bytes or performs two erases. *)
C15_HistoryClearedAfterCommand ==
    [][/\ (flash_op' # None /\ flash_op'[1].branch \in RecognizedCommands)
              => flash'.command_writes = RingBuf_new
       /\ flash'.data # flash.data
              => pushes >= IF flash_op'[1].branch = "byte_program"
                           THEN Len(BYTE_PROGRAM) ELSE Len(ERASE)]_vars

\* a byte program and a sector erase were done, each after an unlock sequence of its
\* own, and the write after the erase was only pushed
C15_Witness ==
    /\ cmd_prev # None /\ cmd_last # None /\ flash_op # None
    /\ cmd_prev[1].branch = "byte_program"
    /\ cmd_last[1].branch = "sector_erase"
    /\ flash_op[1] = [branch |-> "push", address |-> 256, value |-> 66]
    /\ pushes = 1
    /\ flash.data[256] = 255

(* C16: the dump made at shutdown, read through the machine address space at
   (1 << 25) + i, holds at every offset i the byte the flash stores at i, whatever
   commands the flash was given. *)
C16_DumpEqualsFlash ==
    dump # None => \A i \in FlashCells : dump[1][i] = flash.data[i]

(***************************************************************************)
(* A step with sound: the firmware fills the FIFO of a channel and sets    *)
(* its volume, the timers overflow, the sink asks for a sample.            *)
(***************************************************************************)
MaxAudioSteps == 3

MaxFifo == 1

MaxSamples == 2

PcmBytes == {200}

VolumeBytes == {63}

SoundChannels == {0}

AudioInstructions == {i \in Instructions : i.opcode \in {"Lda", "Sta", "Sei"}}

\* nothing; Timer0 alone; the base timer with Timer0 and Timer1
AudioReports ==
    {[bt |-> FALSE, timers_int |-> 0], [bt |-> FALSE, timers_int |-> 1],
     [bt |-> TRUE, timers_int |-> 3]}

\* what pop_front().unwrap_or(0) will find in each channel
Fronts(st) ==
    [c \in PsgChannels |->
        IF st.psg_states[c].fifo = <<>> THEN 0 ELSE Head(st.psg_states[c].fifo)]

\* the sample the sink received last
LastSample(snd) ==
    IF snd.buffer # <<>> THEN snd.buffer[Len(snd.buffer)]
    ELSE snd.sent[Len(snd.sent)][FRAME_SIZE]

\* the firmware stores a byte to the A port of a channel
PsgWriteA(channel, value) ==
    /\ Len(psg.psg_states[channel].fifo) < MaxFifo
    /\ psg' = write_psgxa(psg, channel, value)
    /\ astep' = None
    /\ UNCHANGED audio
    /\ UNCHANGED flashVars
    /\ UNCHANGED bankVars
    /\ UNCHANGED mcuVars
    /\ UNCHANGED irqVars
    /\ UNCHANGED clockVars
    /\ UNCHANGED stackVars
    /\ UNCHANGED lcdVars
    /\ UNCHANGED startVars
    /\ UNCHANGED btVars
    /\ UNCHANGED tmVars
    /\ UNCHANGED dmaVars
    /\ UNCHANGED aluVars
    /\ UNCHANGED chanVars
    /\ UNCHANGED mulVars

\* the firmware stores a byte to the volume register of a channel
PsgWriteVol(channel, value) ==
    /\ psg.volumes[channel] # value % 64
    /\ psg' = write_volx(psg, channel, value)
    /\ astep' = None
    /\ UNCHANGED audio
    /\ UNCHANGED flashVars
    /\ UNCHANGED bankVars
    /\ UNCHANGED mcuVars
    /\ UNCHANGED irqVars
    /\ UNCHANGED clockVars
    /\ UNCHANGED stackVars
    /\ UNCHANGED lcdVars
    /\ UNCHANGED startVars
    /\ UNCHANGED btVars
    /\ UNCHANGED tmVars
    /\ UNCHANGED dmaVars
    /\ UNCHANGED aluVars
    /\ UNCHANGED chanVars
    /\ UNCHANGED mulVars

\* Mcu::step: the instruction, the timers, the pops, the sampling, the dispatch
AudioStep(ins, bt, timers_int, needs) ==
    \E m \in {[core |-> core, irq |-> interrupt, ram |-> ram, banks |-> banks]} :
    \E m2 \in {before_dispatch(m, ins, bt, timers_int)} :
    \E m3 \in {dispatch(m2)} :
    \E snd \in {sound_phases(psg, timers_int, audio, needs)} :
        /\ steps < MaxAudioSteps
        /\ needs => audio.samples < MaxSamples
        /\ m2.core.sp \in StackWindow
        /\ m3.core.sp \in StackWindow
        /\ core' = m3.core
        /\ interrupt' = m3.irq
        /\ ram' = m3.ram
        /\ psg' = snd.psg
        /\ audio' = snd.audio
        /\ astep' = Some([timers_int |-> timers_int, needs |-> needs,
                          due |-> dispatch_due(m2),
                          pending |-> U16_u16(m2.irq.shadow_ireq),
                          front |-> Fronts(psg),
                          irq |-> IF m3.irq.interrupted /\ ~m2.irq.interrupted
                                  THEN highest_priority_interrupt(m2.irq) ELSE None])
        /\ steps' = steps + 1
        /\ UNCHANGED <<banks, cpu_acc, focus>>
        /\ UNCHANGED <<ev, armed, asserted, dispatched, frame>>
        /\ UNCHANGED flashVars
        /\ UNCHANGED irqVars
        /\ UNCHANGED clockVars
        /\ UNCHANGED stackVars
        /\ UNCHANGED lcdVars
        /\ UNCHANGED startVars
        /\ UNCHANGED btVars
        /\ UNCHANGED tmVars
        /\ UNCHANGED dmaVars
        /\ UNCHANGED aluVars
        /\ UNCHANGED chanVars
        /\ UNCHANGED mulVars

AudioInit ==
    FlashVarsInit /\ McuVarsInit /\ AudioVarsInit /\ ClockVarsInit /\ StackVarsInit /\ LcdVarsInit(None) /\ StartVarsInit /\ BtVarsInit /\ TmVarsInit /\ DmaVarsInit /\ AluVarsInit /\ ChanVarsInit /\ MulVarsInit /\ BankVarsInit("none")

AudioNext ==
    \/ \E c \in SoundChannels, v \in PcmBytes : PsgWriteA(c, v)
    \/ \E c \in SoundChannels, v \in VolumeBytes : PsgWriteVol(c, v)
    \/ \E ins \in AudioInstructions, r \in AudioReports, needs \in BOOLEAN :
          AudioStep(ins, r.bt, r.timers_int, needs)

SpecAudio == AudioInit /\ [][AudioNext]_vars

\* the source of timer i
TimerOf(i) == irq_of_bit(i + 1)

(* C17: a timer overflow of a step is latched in that step, the sample its     *)
(* channel popped is the one in the mix if the step emits a sample, and, the   *)
(* interrupt-disable flag clear and the interrupted latch false, it is         *)
(* dispatched at the end of the step.                                          *)
C17_PhaseOrder ==
    astep # None =>
        \A i \in PsgChannels :
            TestBit(astep[1].timers_int, i) =>
                /\ TestBit(U16_u16(interrupt.ireq), i + 1)
                /\ psg.psg_states[i].current_sample = astep[1].front[i]
                /\ astep[1].needs => LastSample(audio) = get_mix_f32(psg)
                /\ astep[1].due =>
                      /\ astep[1].irq = Some(TimerOf(i))
                      /\ core.pc = read_u16_le(Now, interrupt_vector(TimerOf(i)))

(* C17, amended: a timer overflow of a step whose source is enabled in IENA    *)
(* once the instruction of the step has run is latched in that step; the       *)
(* sample its channel popped is the one in the mix if the step emits a         *)
(* sample; and, the interrupt-disable flag clear, the interrupted latch false  *)
(* and no request of higher priority pending, it is dispatched at the end of   *)
(* the step.                                                                   *)
C17_PhaseOrderEnabledHighest ==
    astep # None =>
        \A i \in PsgChannels :
            TestBit(astep[1].timers_int, i) =>
                /\ TestBit(U16_u16(interrupt.iena), i + 1) =>
                      TestBit(U16_u16(interrupt.ireq), i + 1)
                /\ psg.psg_states[i].current_sample = astep[1].front[i]
                /\ astep[1].needs => LastSample(audio) = get_mix_f32(psg)
                /\ ( /\ astep[1].due
                     /\ TestBit(U16_u16(interrupt.iena), i + 1)
                     /\ \A j \in 0 .. i : ~TestBit(astep[1].pending, j) ) =>
                      /\ astep[1].irq = Some(TimerOf(i))
                      /\ interrupt.interrupted
                      /\ core.pc = read_u16_le(Now, interrupt_vector(TimerOf(i)))

(* C17 witness: a step stored IENAL, Timer0 and Timer1 overflowed in it with a *)
(* byte waiting in the FIFO of channel 0, the sink took a sample and Timer0    *)
(* was dispatched.                                                             *)
C17_Witness ==
    /\ astep # None
    /\ astep[1].timers_int = 3
    /\ astep[1].needs
    /\ astep[1].due
    /\ astep[1].front[0] = 200
    /\ psg.volumes[0] = 63
    /\ astep[1].irq = Some("Timer0")
    /\ TestBit(U16_u16(interrupt.ireq), 2)
    /\ steps = 2

(***************************************************************************)
(* The pacing loop of main: while the cycle counter is short of the cycles *)
(* the wall clock requires, it steps the microcontroller; firmware is      *)
(* arbitrary, so each step decodes any opcode byte. Of Mcu::step the       *)
(* actions keep what the clocks see: the cycle counter, set_clocks, and    *)
(* the update of the base timer.                                           *)
(***************************************************************************)
MaxTarget == 1960

OpcodeBytes == 0 .. 255

\* the values cycles_required_so_far takes as the wall clock advances
Targets == {MaxTarget \div 2, MaxTarget}

\* the outer loop reads the clock: the cycles required so far do not decrease
PaceWait(t) ==
    /\ aborted = None
    /\ cycles >= cycles_required
    /\ t > cycles_required
    /\ cycles_required' = t
    /\ clk_op' = "wait"
    /\ UNCHANGED <<cycles, btimer, timer_ticks, aborted>>
    /\ UNCHANGED flashVars
    /\ UNCHANGED bankVars
    /\ UNCHANGED mcuVars
    /\ UNCHANGED irqVars
    /\ UNCHANGED audioVars
    /\ UNCHANGED stackVars
    /\ UNCHANGED lcdVars
    /\ UNCHANGED startVars
    /\ UNCHANGED btVars
    /\ UNCHANGED tmVars
    /\ UNCHANGED dmaVars
    /\ UNCHANGED aluVars
    /\ UNCHANGED chanVars
    /\ UNCHANGED mulVars

\* handheld.mcu.step() of the inner loop, on an instruction that returns
PaceStep(byte, inner, crossed) ==
    \E dec \in {decode(byte)} :
    \E c \in {cycles_after(cycles, dec, inner, crossed)} :
        /\ aborted = None
        /\ cycles < cycles_required
        /\ ~instruction_panics(dec)
        /\ inner => dec.opcode \in InnerCycleOps
        /\ crossed => addressing_mode(dec) \in CrossingModes
        /\ cycles' = c
        /\ btimer' = BaseTimer_update(set_elapsed_ticks(btimer, oscillator_cycles(c))).t
        /\ timer_ticks' = instruction_cycles(c)
        /\ clk_op' = "step"
        /\ UNCHANGED <<cycles_required, aborted>>
        /\ UNCHANGED flashVars
        /\ UNCHANGED bankVars
        /\ UNCHANGED mcuVars
        /\ UNCHANGED irqVars
        /\ UNCHANGED audioVars
        /\ UNCHANGED stackVars
        /\ UNCHANGED lcdVars
        /\ UNCHANGED startVars
        /\ UNCHANGED btVars
        /\ UNCHANGED tmVars
        /\ UNCHANGED dmaVars
        /\ UNCHANGED aluVars
        /\ UNCHANGED chanVars
        /\ UNCHANGED mulVars

\* handheld.mcu.step() of the inner loop, on an instruction that panics: the
\* process ends
PacePanic(byte) ==
    /\ aborted = None
    /\ cycles < cycles_required
    /\ instruction_panics(decode(byte))
    /\ aborted' = Some(byte)
    /\ clk_op' = "panic"
    /\ UNCHANGED <<cycles, btimer, timer_ticks, cycles_required>>
    /\ UNCHANGED flashVars
    /\ UNCHANGED bankVars
    /\ UNCHANGED mcuVars
    /\ UNCHANGED irqVars
    /\ UNCHANGED audioVars
    /\ UNCHANGED stackVars
    /\ UNCHANGED lcdVars
    /\ UNCHANGED startVars
    /\ UNCHANGED btVars
    /\ UNCHANGED tmVars
    /\ UNCHANGED dmaVars
    /\ UNCHANGED aluVars
    /\ UNCHANGED chanVars
    /\ UNCHANGED mulVars

ClockInit ==
    FlashVarsInit /\ McuVarsInit /\ AudioVarsInit /\ ClockVarsInit /\ StackVarsInit /\ LcdVarsInit(None) /\ StartVarsInit /\ BtVarsInit /\ TmVarsInit /\ DmaVarsInit /\ AluVarsInit /\ ChanVarsInit /\ MulVarsInit /\ BankVarsInit("none")

ClockNext ==
    \/ \E t \in Targets : PaceWait(t)
    \/ \E byte \in OpcodeBytes, inner \in BOOLEAN, crossed \in BOOLEAN :
          PaceStep(byte, inner, crossed)
    \/ \E byte \in OpcodeBytes : PacePanic(byte)

SpecClock == ClockInit /\ [][ClockNext]_vars

MaxPace == 120

\* the cycles required at two readings of the wall clock, a short time apart
PaceTargets == {MaxPace \div 2, MaxPace}

PaceNext ==
    \/ \E t \in PaceTargets : PaceWait(t)
    \/ \E byte \in OpcodeBytes, inner \in BOOLEAN, crossed \in BOOLEAN :
          PaceStep(byte, inner, crossed)
    \/ \E byte \in OpcodeBytes : PacePanic(byte)

\* the loop is scheduled as long as the process runs
SpecPace == ClockInit /\ [][PaceNext]_vars /\ WF_vars(PaceNext)

(* C18: the base timer updated after every step, at every update the counter  *)
(* has been incremented floor(M * 8192 / 16,000,000) times, M the elapsed      *)
(* oscillator count of the update.                                             *)
C18_BaseTimerCount ==
    clk_op = "step" =>
        btimer.counter = (btimer.elapsed_ticks * TIMER_FREQUENCY) \div SYSTEM_FREQ

(* C19: no opcode byte other than BRK and STP makes a step abort.              *)
C19_NoAbort == aborted # None => decode(aborted[1]).opcode \in {"Brk", "Stp"}

(* C20: every step of the pacing loop that returns adds at least 1 to the      *)
(* cycle counter, which never decreases; after it the oscillator count handed  *)
(* to the base timer is twice the instruction count handed to the timers,      *)
(* which is the cycle counter; and the inner loop always comes to its end: the *)
(* counter reaches the cycles required, unless a panic has ended the process.  *)
C20_CyclesAdvance ==
    /\ [][/\ cycles' >= cycles
          /\ clk_op' = "step" =>
                /\ cycles' >= cycles + 1
                /\ btimer'.elapsed_ticks = 2 * cycles'
                /\ timer_ticks' = cycles']_vars
    /\ []<>(aborted # None \/ cycles >= cycles_required)

(* C20 witness: the inner loop has stepped up to the cycles required at the    *)
(* second reading of the clock.                                                *)
C20_Witness ==
    /\ clk_op = "step"
    /\ cycles_required = MaxPace
    /\ cycles >= cycles_required
    /\ btimer.elapsed_ticks = 2 * cycles

(***************************************************************************)
(* The hardware stack, driven by balanced pushes and pops (SpecStack)      *)
(***************************************************************************)
\* The bytes the pushes of a run may leave on the stack at once.
MaxStackBytes == 4

StackBytes == {18, 171}

StackWords == {4660, 43981}

\* the bytes a list of pending pushes occupies
StackDepth(s) == Len(s) + Cardinality({i \in DOMAIN s : s[i].wide})

\* the machine of Mcu::new
PowerOn ==
    Mcu_reset([core |-> Core_new, irq |-> Interrupt_new,
               ram |-> [i \in RamCells |-> 0], banks |-> Bank_new])

StackSet(m) ==
    /\ core' = m.core
    /\ ram' = m.ram
    /\ interrupt' = m.irq
    /\ banks' = m.banks
    /\ UNCHANGED <<cpu_acc, focus, ev, armed, asserted, dispatched, frame>>
    /\ UNCHANGED flashVars
    /\ UNCHANGED audioVars
    /\ UNCHANGED clockVars
    /\ UNCHANGED irqVars
    /\ UNCHANGED lcdVars
    /\ UNCHANGED startVars
    /\ UNCHANGED btVars
    /\ UNCHANGED tmVars
    /\ UNCHANGED dmaVars
    /\ UNCHANGED aluVars
    /\ UNCHANGED chanVars
    /\ UNCHANGED mulVars

\* Core::push_u8 called with val
StackPush8(val) ==
    /\ StackDepth(stk) + 1 <= MaxStackBytes
    /\ StackSet(push_u8(Now, val))
    /\ stk' = Append(stk, [wide |-> FALSE, val |-> val])
    /\ UNCHANGED steps
    /\ UNCHANGED btVars
    /\ UNCHANGED tmVars
    /\ UNCHANGED dmaVars
    /\ UNCHANGED aluVars
    /\ UNCHANGED chanVars
    /\ UNCHANGED mulVars
    /\ stk_op' = Some([op |-> "push_u8", val |-> val, expect |-> val,
                       addrs |-> {full_sp(core)}])

\* Core::push_u16 called with val
StackPush16(val) ==
    /\ StackDepth(stk) + 2 <= MaxStackBytes
    /\ StackSet(push_u16(Now, val))
    /\ stk' = Append(stk, [wide |-> TRUE, val |-> val])
    /\ UNCHANGED steps
    /\ UNCHANGED btVars
    /\ UNCHANGED tmVars
    /\ UNCHANGED dmaVars
    /\ UNCHANGED aluVars
    /\ UNCHANGED chanVars
    /\ UNCHANGED mulVars
    /\ stk_op' = Some([op |-> "push_u16", val |-> val, expect |-> val,
                       addrs |-> {full_sp(core), full_sp(push_u8(Now, 0).core)}])

\* Core::pop_u8, called when the innermost pending push is a push_u8
StackPop8 ==
    /\ stk # <<>>
    /\ ~stk[Len(stk)].wide
    /\ \E r \in {pop_u8(Now)} :
          /\ StackSet(r.m)
          /\ stk_op' = Some([op |-> "pop_u8", val |-> r.val, expect |-> stk[Len(stk)].val,
                             addrs |-> {full_sp(r.m.core)}])
    /\ stk' = SubSeq(stk, 1, Len(stk) - 1)
    /\ UNCHANGED steps
    /\ UNCHANGED btVars
    /\ UNCHANGED tmVars
    /\ UNCHANGED dmaVars
    /\ UNCHANGED aluVars
    /\ UNCHANGED chanVars
    /\ UNCHANGED mulVars

\* Core::pop_u16, called when the innermost pending push is a push_u16
StackPop16 ==
    /\ stk # <<>>
    /\ stk[Len(stk)].wide
    /\ \E r \in {pop_u16(Now)} :
          /\ StackSet(r.m)
          /\ stk_op' = Some([op |-> "pop_u16", val |-> r.val, expect |-> stk[Len(stk)].val,
                             addrs |-> {full_sp(pop_u8(Now).m.core), full_sp(r.m.core)}])
    /\ stk' = SubSeq(stk, 1, Len(stk) - 1)
    /\ UNCHANGED steps
    /\ UNCHANGED btVars
    /\ UNCHANGED tmVars
    /\ UNCHANGED dmaVars
    /\ UNCHANGED aluVars
    /\ UNCHANGED chanVars
    /\ UNCHANGED mulVars

StackInit ==
    FlashVarsInit /\ McuVarsInit /\ AudioVarsInit /\ ClockVarsInit /\ StackVarsInit /\ LcdVarsInit(None) /\ StartVarsInit /\ BtVarsInit /\ TmVarsInit /\ DmaVarsInit /\ AluVarsInit /\ ChanVarsInit /\ MulVarsInit /\ BankVarsInit("none")

StackNext ==
    \/ \E val \in StackBytes : StackPush8(val)
    \/ \E val \in StackWords : StackPush16(val)
    \/ StackPop8
    \/ StackPop16

SpecStack == StackInit /\ [][StackNext]_vars

(* C21: starting from SP = 0, through any balanced, properly nested sequence   *)
(* of push_u8/push_u16/pop_u8/pop_u16, each pop returns the value of its       *)
(* matching push, every stack access is to an address in 0x100..0x1FF, A, PC,  *)
(* the flags and everything outside 0x100..0x1FF stay as they were, and SP is  *)
(* 0 again once every push has been popped.                                    *)
C21_BalancedStack ==
    /\ stk_op # None =>
          /\ stk_op[1].addrs \subseteq 256 .. 511
          /\ stk_op[1].op \in {"pop_u8", "pop_u16"} => stk_op[1].val = stk_op[1].expect
    /\ stk = <<>> => core.sp = 0
    /\ [core EXCEPT !.sp = 0] = [PowerOn.core EXCEPT !.sp = 0]
    /\ interrupt = PowerOn.irq
    /\ banks = PowerOn.banks
    /\ \A at \in DOMAIN ram \ (256 .. 511) : ram[at] = PowerOn.ram[at]

(* C21 witness: a push_u16 nested inside a push_u8 has been popped, then the   *)
(* push_u8, and the stack is empty again.                                      *)
C21_Witness ==
    /\ stk = <<>>
    /\ stk_op # None
    /\ stk_op[1].op = "pop_u8"
    /\ stk_op[1].val = 171
    /\ ram[256] = 171
    /\ ram[511] = 171
    /\ ram[510] = 205
    /\ core.sp = 0

(***************************************************************************)
(* Subroutine calls and returns over the stack (SpecCall)                  *)
(***************************************************************************)
\* The JSR and RTS instructions a run may step through.
MaxCalls == 3

CallTargets == {32768, 33023}

\* the word at the top of the stack, low byte at the lower address
StackTopWord(c, r) ==
    RamRead(r, 256 + ((c.sp + 1) % 256)) + 256 * RamRead(r, 256 + ((c.sp + 2) % 256))

\* Core::step on a JSR to target decoded at pc
CallJsr(target) ==
    /\ steps < MaxCalls
    /\ StackDepth(stk) + 2 <= MaxStackBytes
    /\ \E ins \in {[opcode |-> "Jsr", mode |-> "AbsoluteAddress", operand |-> target]} :
          /\ StackSet(Core_step(Now, ins))
          /\ stk' = Append(stk, [wide |-> TRUE, val |-> (core.pc + encoded_length(ins)) % 65536,
                                 site |-> core.pc, sp |-> core.sp])
    /\ stk_op' = Some([op |-> "jsr", val |-> target, expect |-> target,
                       addrs |-> {full_sp(core), full_sp(push_u8(Now, 0).core)}])
    /\ steps' = steps + 1

\* Core::step on an RTS decoded at pc, the innermost pending push being a word
CallRts ==
    /\ steps < MaxCalls
    /\ stk # <<>>
    /\ stk[Len(stk)].wide
    /\ StackSet(Core_step(Now, [opcode |-> "Rts", mode |-> "Implied"]))
    /\ stk' = SubSeq(stk, 1, Len(stk) - 1)
    /\ stk_op' = Some([op |-> "rts", val |-> StackTopWord(core, ram),
                       expect |-> stk[Len(stk)].val,
                       call |-> IF "site" \in DOMAIN stk[Len(stk)]
                                THEN Some([site |-> stk[Len(stk)].site,
                                           sp |-> stk[Len(stk)].sp])
                                ELSE None,
                       addrs |-> {256 + ((core.sp + 1) % 256), 256 + ((core.sp + 2) % 256)}])
    /\ steps' = steps + 1

CallNext ==
    \/ \E target \in CallTargets : CallJsr(target)
    \/ CallRts
    \/ \E val \in StackBytes : StackPush8(val)
    \/ \E val \in StackWords : StackPush16(val)
    \/ StackPop8
    \/ StackPop16

SpecCall == StackInit /\ [][CallNext]_vars

(* C22 as stated: RTS sets PC to the 16-bit value popped from the stack (low   *)
(* byte first, then high byte) plus one.                                        *)
C22_RtsPlusOne ==
    (stk_op # None /\ stk_op[1].op = "rts") => core.pc = (stk_op[1].val + 1) % 65536

(* C22 amended: RTS sets PC to the 16-bit value popped from the stack (low     *)
(* byte first, then high byte).                                                 *)
C22_RtsPopsPc ==
    (stk_op # None /\ stk_op[1].op = "rts") =>
        /\ core.pc = stk_op[1].val
        /\ stk_op[1].val = stk_op[1].expect

(* C22 witness: an RTS has popped the word 0xABCD that a push_u16 stored.       *)
C22_Witness ==
    /\ stk_op # None
    /\ stk_op[1].op = "rts"
    /\ stk_op[1].val = 43981
    /\ ram[511] = 205
    /\ ram[256] = 171
    /\ core.pc = 43981

(* C38: for every JSR located at address p, to any target, if the              *)
(* subroutine's stack pushes and pops are balanced, the RTS that ends it sets  *)
(* PC to p + 3, the instruction following the 3-byte JSR, and restores SP to   *)
(* its value before the JSR.                                                   *)
C38_CallReturns ==
    (stk_op # None /\ stk_op[1].op = "rts" /\ stk_op[1].call # None) =>
        /\ core.pc = (stk_op[1].call[1].site + 3) % 65536
        /\ core.sp = stk_op[1].call[1].sp

(* C38 witness: a subroutine called from inside the subroutine at 0x8000, with *)
(* SP = 0xFE, has returned to 0x8003 with SP = 0xFE again.                     *)
C38_Witness ==
    /\ stk_op # None
    /\ stk_op[1].op = "rts"
    /\ stk_op[1].call = Some([site |-> 32768, sp |-> 254])
    /\ core.pc = 32771
    /\ core.sp = 254
    /\ Len(stk) = 1

(***************************************************************************)
(* The LCD controller written through its two registers.  SpecLcd: the     *)
(* firmware writes any command or data byte of a small alphabet.           *)
(* SpecWindow: the firmware sets a window and fills it.  SpecFrame: the     *)
(* firmware fills the whole screen.                                        *)
(***************************************************************************)
\* Lcd::write_u8(address, value), what it stored and what it handed to the screen
LcdWrite(address, value) ==
    /\ IF lcd_ev = None THEN TRUE ELSE ~lcd_ev[1].panic
    /\ \E r \in {Lcd_write_u8(lcd, address, value)} :
          /\ lcd' = r.lcd
          /\ lcd_ev' = Some([address |-> address, value |-> value, wrote |-> r.wrote,
                             frames |-> r.frames, panic |-> r.panic,
                             prev |-> IF lcd_ev = None THEN None
                                      ELSE Some(lcd_ev[1].value)])
          /\ IF Register_from_address(address) = "Command"
             THEN IF Command_from_val(lcd.ext, value) = None
                  THEN UNCHANGED lcd_frames
                  ELSE lcd_frames' = 0
             ELSE lcd_frames' = lcd_frames + Len(r.frames)
    /\ lcd_n' = lcd_n + 1
    /\ UNCHANGED lcd_plan
    /\ UNCHANGED flashVars
    /\ UNCHANGED bankVars
    /\ UNCHANGED mcuVars
    /\ UNCHANGED irqVars
    /\ UNCHANGED audioVars
    /\ UNCHANGED clockVars
    /\ UNCHANGED stackVars
    /\ UNCHANGED startVars
    /\ UNCHANGED btVars
    /\ UNCHANGED tmVars
    /\ UNCHANGED dmaVars
    /\ UNCHANGED aluVars
    /\ UNCHANGED chanVars
    /\ UNCHANGED mulVars

\* The writes a run makes to the LCD.
MaxLcdWrites == 5

\* ExtOn, ColumnAddressSet, PageAddressSet, WritingToMemory, EcControl, DisplayOn
\* as commands; as data, window limits inside and outside the DDRAM, and voltages
LcdBytes == {1, 2, 21, 49, 92, 117, 129, 175, 200}

LcdInit ==
    FlashVarsInit /\ McuVarsInit /\ AudioVarsInit /\ ClockVarsInit /\ StackVarsInit /\ LcdVarsInit(None) /\ StartVarsInit /\ BtVarsInit /\ TmVarsInit /\ DmaVarsInit /\ AluVarsInit /\ ChanVarsInit /\ MulVarsInit /\ BankVarsInit("none")

LcdNext ==
    \E address \in 0 .. 1, value \in LcdBytes :
        /\ lcd_n < MaxLcdWrites
        /\ LcdWrite(address, value)

SpecLcd == LcdInit /\ [][LcdNext]_vars

\* The pixels of the largest window a run of SpecWindow fills.
MaxWindowPixels == 4

WindowColumns == {0, 1, 96, 97}

WindowPages == {0, 1, 66, 67}

Windows ==
    {win \in [sc : WindowColumns, ec : WindowColumns, sp : WindowPages, ep : WindowPages] :
        /\ win.sc <= win.ec
        /\ win.sp <= win.ep
        /\ (win.ec - win.sc + 1) * (win.ep - win.sp + 1) <= MaxWindowPixels}

WindowArea(win) == (win.ec - win.sc + 1) * (win.ep - win.sp + 1)

\* the writes that set a window: EXT_OFF, ColumnAddressSet and its two bytes,
\* PageAddressSet and its two bytes, WritingToMemory
WindowHead(win) ==
    <<[address |-> 0, value |-> 48],
      [address |-> 0, value |-> 21], [address |-> 1, value |-> win.sc],
      [address |-> 1, value |-> win.ec],
      [address |-> 0, value |-> 117], [address |-> 1, value |-> win.sp],
      [address |-> 1, value |-> win.ep],
      [address |-> 0, value |-> 92]>>

\* the head and two data bytes a pixel of the window
WindowScriptLen(win) == Len(WindowHead(win)) + 2 * WindowArea(win)

\* write number n (from 1) of the script: the data alternate 0x0F and 0xF0
WindowScriptAt(win, n) ==
    IF n <= Len(WindowHead(win)) THEN WindowHead(win)[n]
    ELSE [address |-> 1, value |-> IF (n - Len(WindowHead(win))) % 2 = 1 THEN 15 ELSE 240]

\* the next write of the plan
WindowWrite ==
    /\ lcd_plan # None
    /\ lcd_n < WindowScriptLen(lcd_plan[1])
    /\ \E w \in {WindowScriptAt(lcd_plan[1], lcd_n + 1)} : LcdWrite(w.address, w.value)

WindowInit ==
    /\ FlashVarsInit /\ McuVarsInit /\ AudioVarsInit /\ ClockVarsInit /\ StackVarsInit
    /\ StartVarsInit /\ BtVarsInit /\ TmVarsInit /\ DmaVarsInit
    /\ AluVarsInit /\ ChanVarsInit /\ MulVarsInit
    /\ BankVarsInit("none")
    /\ \E win \in Windows : LcdVarsInit(Some(win))

WindowNext == WindowWrite

SpecWindow == WindowInit /\ [][WindowNext]_vars

FullScreen == [sc |-> 0, ec |-> LCD_WIDTH - 1, sp |-> 0, ep |-> LCD_HEIGHT - 1]

FrameInit ==
    /\ FlashVarsInit /\ McuVarsInit /\ AudioVarsInit /\ ClockVarsInit /\ StackVarsInit
    /\ StartVarsInit /\ BtVarsInit /\ TmVarsInit /\ DmaVarsInit
    /\ AluVarsInit /\ ChanVarsInit /\ MulVarsInit
    /\ BankVarsInit("none")
    /\ LcdVarsInit(Some(FullScreen))

SpecFrame == FrameInit /\ [][WindowNext]_vars

(* C23: for every sequence of command and data bytes written to the LCD,       *)
(* whenever the active command is WritingToMemory the window satisfies         *)
(* start_column <= end_column and start_page <= end_page.                      *)
C23_WindowOrdered ==
    lcd.active_command = Some("WritingToMemory") =>
        /\ lcd.start_column <= lcd.end_column
        /\ lcd.start_page <= lcd.end_page

(* C28: for every sequence of command and data bytes written to the LCD, every *)
(* DDRAM access stays inside the 13,328-byte array, at a WritingToMemory data  *)
(* write and during frame emission, so no LCD write aborts the step.           *)
C28_DdramInRange == lcd_ev # None => ~lcd_ev[1].panic

(* C29: after the command EcControl followed by the data bytes lo and hi, the  *)
(* 9-bit voltage register equals (lo & 0x3F) | ((hi & 0x07) << 6).             *)
C29_Voltage ==
    (/\ lcd.active_command = Some("EcControl")
     /\ lcd.byte_since_command = 2
     /\ lcd_ev # None) =>
        lcd.voltage = BitOr(BitAnd(lcd_ev[1].prev[1], 63), BitAnd(lcd_ev[1].value, 7) * 64)

\* the plan of the behaviour, and the data byte (from 0) the last write carried
Plan == lcd_plan[1]

DataIndex == lcd_n - Len(WindowHead(Plan)) - 1

\* the ddram index at which data byte i of a window is to be stored
WindowOffset(win, i) ==
    LET w == win.ec - win.sc + 1
        k == i \div 2
    IN  ((win.sp + (k \div w)) * 98 + win.sc + (k % w)) * 2 + (i % 2)

(* C26: after ColumnAddressSet (sc, ec) and PageAddressSet (sp, ep) with       *)
(* sc <= ec <= 97 and sp <= ep <= 67, the data bytes following WritingToMemory *)
(* fill the window in row-major order, two bytes per pixel: bytes 2k and 2k+1  *)
(* are stored at DDRAM offsets ((sp + k div w) * 98 + sc + k mod w) * 2 and    *)
(* that offset + 1, w = ec - sc + 1, and after the last of them the cursor is  *)
(* back at (sc, sp).                                                           *)
C26_WindowFill ==
    (lcd_plan # None /\ lcd_n > Len(WindowHead(Plan))) =>
        /\ lcd_ev[1].wrote = Some(WindowOffset(Plan, DataIndex))
        /\ ddram_get(lcd, WindowOffset(Plan, DataIndex)) = lcd_ev[1].value
        /\ lcd_n = WindowScriptLen(Plan) =>
              lcd.ddram_ptr = (Plan.sp * 98 + Plan.sc) * 2

(* C27: for a window with sc <= ec <= 97 and sp <= ep <= 67, writing exactly   *)
(* (ec - sc + 1) * (ep - sp + 1) * 2 data bytes after WritingToMemory emits    *)
(* exactly one pixel frame, and it is emitted by the last of these bytes.      *)
C27_OneFrame ==
    (lcd_plan # None /\ lcd_n > Len(WindowHead(Plan))) =>
        IF lcd_n = WindowScriptLen(Plan)
        THEN lcd_frames = 1 /\ Len(lcd_ev[1].frames) = 1
        ELSE lcd_frames = 0

\* the last write was the last of the script and handed a frame to the screen
FinalFrame ==
    /\ lcd_plan # None
    /\ lcd_n = WindowScriptLen(Plan)
    /\ lcd_ev # None
    /\ Len(lcd_ev[1].frames) = 1

(* C24 as stated: driving a freshly created LCD with EXT_OFF, ColumnAddressSet *)
(* (0, 97), PageAddressSet (0, 66), WritingToMemory and 98*67*2 data bytes     *)
(* alternating 0x0F, 0xF0, the frame emitted on the final write has red = 0 at *)
(* every even pixel position and red = 255 at every odd pixel position.        *)
C24_RedAlternates ==
    (lcd_plan = Some(FullScreen) /\ lcd_n = WindowScriptLen(FullScreen)) =>
        /\ FinalFrame
        /\ \A i \in 0 .. (LCD_WIDTH * LCD_HEIGHT - 1) :
              frame_pixel(lcd_ev[1].frames[1], i).red = IF i % 2 = 0 THEN 0 ELSE 255

(* C24 amended: driven so, the frame emitted on the final write has red = 0 at *)
(* every pixel position, even and odd.                                         *)
C24_RedZero ==
    (lcd_plan = Some(FullScreen) /\ lcd_n = WindowScriptLen(FullScreen)) =>
        /\ FinalFrame
        /\ lcd_frames = 1
        /\ \A i \in 0 .. (LCD_WIDTH * LCD_HEIGHT - 1) :
              frame_pixel(lcd_ev[1].frames[1], i).red = 0

(* C24 witness: the last of the 98*67*2 data bytes has been stored at the end  *)
(* of page 66 and a frame has been emitted.                                    *)
C24_Witness ==
    /\ lcd_plan = Some(FullScreen)
    /\ FinalFrame
    /\ lcd_n = 8 + 98 * 67 * 2
    /\ lcd_ev[1].wrote = Some(98 * 67 * 2 - 1)
    /\ lcd_ev[1].value = 240
    /\ ddram_get(lcd, 0) = 15
    /\ lcd.ddram_ptr = 0

(***************************************************************************)
(* main.rs: the start of the process, from the reading of the two images   *)
(* to the pacing loop (SpecStart).  The files, the audio host and the user *)
(* closing the window are the environment.                                 *)
(***************************************************************************)
\* The steps of the pacing loop a run makes.
MaxBootSteps == 3

\* the lengths of the files read: empty, each other's size, and around the size required
OtpLengths == {0, OTP_SIZE - 1, OTP_SIZE, OTP_SIZE + 1, CHIP_CAPACITY}

FlashLengths == {0, OTP_SIZE, CHIP_CAPACITY - 1, CHIP_CAPACITY, CHIP_CAPACITY + 1}

\* the exit status of a process whose main returns
EXIT_SUCCESS == 0

\* eprintln! of an error and return from main
report_and_return(b, why) ==
    [b EXCEPT !.at = "exited", !.failed = Some(why), !.stderr = Append(@, why),
              !.code = Some(EXIT_SUCCESS)]

StartLeaves ==
    /\ UNCHANGED flashVars
    /\ UNCHANGED bankVars
    /\ UNCHANGED mcuVars
    /\ UNCHANGED irqVars
    /\ UNCHANGED audioVars
    /\ UNCHANGED clockVars
    /\ UNCHANGED stackVars
    /\ UNCHANGED lcdVars
    /\ UNCHANGED btVars
    /\ UNCHANGED tmVars
    /\ UNCHANGED dmaVars
    /\ UNCHANGED aluVars
    /\ UNCHANGED chanVars
    /\ UNCHANGED mulVars

\* std::fs::read(args.otp_file): an error, or the bytes of the file
StartReadOtp(res) ==
    /\ boot.at = "main"
    /\ boot' = IF res = None THEN report_and_return(boot, "Could not read OTP file")
               ELSE [boot EXCEPT !.at = "otp_read", !.otp = res]
    /\ StartLeaves

\* std::fs::read(args.flash_file)
StartReadFlash(res) ==
    /\ boot.at = "otp_read"
    /\ boot' = IF res = None THEN report_and_return(boot, "Could not read flash file")
               ELSE [boot EXCEPT !.at = "flash_read", !.flash = res]
    /\ StartLeaves

\* MiniFbScreen::open, then cpal_audio::stream_setup_for
StartAudioSetup(ok) ==
    /\ boot.at = "flash_read"
    /\ boot' = IF ok THEN [boot EXCEPT !.at = "stream_setup"]
               ELSE report_and_return(boot, "Could not setup audio stream")
    /\ StartLeaves

\* stream.play()
StartAudioPlay(ok) ==
    /\ boot.at = "stream_setup"
    /\ boot' = IF ok THEN [boot EXCEPT !.at = "stream_playing"]
               ELSE report_and_return(boot, "Could not play audio stream")
    /\ StartLeaves

\* HandheldAddressSpace::new: the error of Handheld::new, if any
ConfigurationError(otp_len, flash_len) ==
    IF otp_len # OTP_SIZE THEN Some("InvalidOtpSize")
    ELSE IF flash_len # CHIP_CAPACITY THEN Some("InvalidFlashSize")
    ELSE None

\* Handheld::new(&otp_data, &flash_data, ...)
StartHandheld ==
    /\ boot.at = "stream_playing"
    /\ \E err \in {ConfigurationError(boot.otp[1], boot.flash[1])} :
          boot' = IF err = None THEN [boot EXCEPT !.at = "running"]
                  ELSE report_and_return(boot, err[1])
    /\ StartLeaves

\* handheld.mcu.step() in the pacing loop
StartStep ==
    /\ boot.at = "running"
    /\ boot.stepped < MaxBootSteps
    /\ boot' = [boot EXCEPT !.stepped = @ + 1]
    /\ StartLeaves

\* the window is closed: the loop ends and main returns
StartClose ==
    /\ boot.at = "running"
    /\ boot' = [boot EXCEPT !.at = "exited", !.code = Some(EXIT_SUCCESS)]
    /\ StartLeaves

StartInit ==
    FlashVarsInit /\ McuVarsInit /\ AudioVarsInit /\ ClockVarsInit /\ StackVarsInit /\ LcdVarsInit(None) /\ StartVarsInit /\ BtVarsInit /\ TmVarsInit /\ DmaVarsInit /\ AluVarsInit /\ ChanVarsInit /\ MulVarsInit /\ BankVarsInit("none")

StartNext ==
    \/ \E res \in {None} \cup {Some(n) : n \in OtpLengths} : StartReadOtp(res)
    \/ \E res \in {None} \cup {Some(n) : n \in FlashLengths} : StartReadFlash(res)
    \/ \E ok \in BOOLEAN : StartAudioSetup(ok)
    \/ \E ok \in BOOLEAN : StartAudioPlay(ok)
    \/ StartHandheld
    \/ StartStep
    \/ StartClose

SpecStart == StartInit /\ [][StartNext]_vars

(* C25: if the OTP image is not exactly 16,384 bytes, the flash image is not   *)
(* exactly 2,097,152 bytes, an input file cannot be read or the audio stream   *)
(* cannot be set up, the process reports the error on standard error,          *)
(* executes no CPU step, and exits with a non-zero exit code.                  *)
C25_StartupFailure ==
    (boot.at = "exited" /\ boot.failed # None) =>
        /\ boot.stderr # <<>>
        /\ boot.stepped = 0
        /\ boot.code # None
        /\ boot.code[1] # 0

(***************************************************************************)
(* The microcontroller stepped on firmware that also writes the request    *)
(* and enable registers (SpecPend).                                        *)
(***************************************************************************)
PendInstructions ==
    {[opcode |-> o, mode |-> "Implied", operand |-> 0] : o \in {"Sei", "Cli", "Rti"}}
      \cup {[opcode |-> "Lda", mode |-> "Immediate", operand |-> v] : v \in {0, 70}}
      \cup {[opcode |-> "Sta", mode |-> "ZeroPage", operand |-> z] :
                z \in {IREQL, IREQH, IENAL, IENAH}}

PendNext ==
    \E ins \in PendInstructions, r \in TimerReports : McuStep(ins, r.bt, r.timers_int)

SpecPend == McuInit /\ [][PendNext]_vars

\* the shadow register, and its lowest set bit
Shadow == U16_u16(interrupt.shadow_ireq)

LowestBit(x) == CHOOSE i \in 0 .. 15 : Bit(x, i) = 1 /\ \A j \in 0 .. (i - 1) : Bit(x, j) = 0

(* C30: a request latched in the shadow register stays pending until it is     *)
(* dispatched: over a step, whatever it writes to IREQL/IREQH or IENAL/IENAH,  *)
(* a shadow bit is kept unless the step dispatches its source; and a step at   *)
(* whose end interrupt-disable is clear and the interrupted latch is false     *)
(* dispatches the lowest-numbered pending source, so a source asserted while   *)
(* interrupt-disable was set or a handler was running is dispatched at the     *)
(* first later step at which it is the lowest pending one.                     *)
C30_PendingUntilDispatched ==
    [][/\ \A i \in 0 .. 15 :
             Bit(Shadow, i) = 1 =>
                \/ Bit(Shadow', i) = 1
                \/ ev'.irq # None /\ SourceBit(ev'.irq[1]) = i
       /\ (/\ ~ev'.dec.flags.interrupt_disable
           /\ ~ev'.dec.latch
           /\ ev'.dec.shadow # 0) =>
             /\ ev'.irq # None
             /\ SourceBit(ev'.irq[1]) = LowestBit(ev'.dec.shadow)
             /\ Shadow' = ev'.dec.shadow - Pow2(LowestBit(ev'.dec.shadow))]_vars

(* C30 witness: Timer1 and the base timer were asserted as Timer0 was          *)
(* dispatched; the handler cleared the visible IREQL, and at its RTI Timer1 is *)
(* dispatched, the base timer still pending.                                   *)
C30_Witness ==
    /\ ev.op = "Rti"
    /\ ev.irq = Some("Timer1")
    /\ dispatched["Timer0"] = 1
    /\ U16_u16(interrupt.ireq) = 0
    /\ Bit(Shadow, 6) = 1

(***************************************************************************)
(* The base timer, ticked and written through BTEN, BTREQ and BTC          *)
(* (SpecBaseTimer)                                                         *)
(***************************************************************************)
MaxBtTicks == 3

\* counter values the timer has reached with BTEN = 0, just before the multiples the
\* channels divide: 0, 8192 div 3, 4096 and 8192
BtCounters == {0, 2729, 4094, 8190}

BtEnables == {0, 1, 66, 129, 255}

BtClears == {0, 1, 128, 255}

BtChannels == {0, 3, 255}

\* the frequency of channel k
BtFreq(k, channel) ==
    CASE k = 0 -> 2 [] k = 1 -> 32 [] k = 2 -> 64 [] k = 3 -> 128 [] k = 4 -> 256
      [] k = 5 -> 512 [] k = 6 -> 2048
      [] OTHER -> IF channel # 0 THEN channel ELSE 8192

\* the enabled channels that fire at a tick to the given counter value
BtFiring(counter, enable, channel) ==
    {k \in 0 .. 7 :
        /\ Bit(enable, k) = 1
        /\ (counter % 8192) % (8192 \div BtFreq(k, channel)) = 0}

BtRest == <<cycles, timer_ticks, cycles_required, clk_op, aborted>>

\* Mcu::step calls base_timer.update(); the clock has or has not reached the next tick
BtUpdate(due) ==
    \E t \in {set_elapsed_ticks(btimer, IF due THEN btimer.next_counter_tick
                                               ELSE btimer.elapsed_ticks)} :
    \E r \in {BaseTimer_update(t)} :
        /\ r.t.counter <= bt_op.first + MaxBtTicks
        /\ btimer' = r.t
        /\ bt_due' = IF due THEN bt_due \cup BtFiring(r.t.counter, btimer.bten, btimer.btc)
                             ELSE bt_due
        /\ bt_op' = [bt_op EXCEPT !.op = "update", !.ticked = due, !.fired = r.fired]
        /\ UNCHANGED BtRest
        /\ UNCHANGED flashVars
        /\ UNCHANGED bankVars
        /\ UNCHANGED mcuVars
        /\ UNCHANGED irqVars
        /\ UNCHANGED audioVars
        /\ UNCHANGED stackVars
        /\ UNCHANGED lcdVars
        /\ UNCHANGED startVars
        /\ UNCHANGED tmVars
        /\ UNCHANGED dmaVars
        /\ UNCHANGED aluVars
        /\ UNCHANGED chanVars
        /\ UNCHANGED mulVars

\* a CPU write to BTEN, BTREQ or BTC
BtWrite(reg, value) ==
    /\ btimer' = CASE reg = "BTEN" -> write_bten(btimer, value)
                    [] reg = "BTREQ" -> write_btreq(btimer, value)
                    [] OTHER -> write_btc(btimer, value)
    /\ bt_due' = IF reg = "BTREQ" THEN {k \in bt_due : Bit(value, k) = 0} ELSE bt_due
    /\ bt_op' = [bt_op EXCEPT !.op = reg, !.ticked = FALSE, !.fired = FALSE]
    /\ UNCHANGED BtRest
    /\ UNCHANGED flashVars
    /\ UNCHANGED bankVars
    /\ UNCHANGED mcuVars
    /\ UNCHANGED irqVars
    /\ UNCHANGED audioVars
    /\ UNCHANGED stackVars
    /\ UNCHANGED lcdVars
    /\ UNCHANGED startVars
    /\ UNCHANGED tmVars
    /\ UNCHANGED dmaVars
    /\ UNCHANGED aluVars
    /\ UNCHANGED chanVars
    /\ UNCHANGED mulVars

\* the timer after `first` ticks with every channel disabled
BtInit ==
    /\ FlashVarsInit /\ McuVarsInit /\ AudioVarsInit /\ StackVarsInit /\ LcdVarsInit(None)
    /\ StartVarsInit /\ TmVarsInit /\ DmaVarsInit /\ AluVarsInit /\ ChanVarsInit /\ MulVarsInit /\ BankVarsInit("none")
    /\ cycles = 0 /\ timer_ticks = 0 /\ cycles_required = 0 /\ clk_op = "init"
    /\ aborted = None
    /\ \E first \in BtCounters :
          /\ btimer = update_next_counter_tick(
                          [BaseTimer_new(SYSTEM_FREQ) EXCEPT
                              !.counter = first,
                              !.elapsed_ticks = MulDiv(first, SYSTEM_FREQ, TIMER_FREQUENCY)])
          /\ bt_op = [op |-> "init", ticked |-> FALSE, fired |-> FALSE, first |-> first]
    /\ bt_due = {}

BtNext ==
    \/ \E due \in BOOLEAN : BtUpdate(due)
    \/ \E value \in BtEnables : BtWrite("BTEN", value)
    \/ \E value \in BtClears : BtWrite("BTREQ", value)
    \/ \E value \in BtChannels : BtWrite("BTC", value)

SpecBaseTimer == BtInit /\ [][BtNext]_vars

\* the request register as the set of its bits
BtRequested == {k \in 0 .. 7 : Bit(btimer.btreq, k) = 1}

(* C31: after any sequence of base-timer updates and register writes, BTREQ    *)
(* bit k is set exactly if, since the last write to BTREQ with bit k = 1 (or   *)
(* since power-on), some tick occurred at which BTEN bit k was set and the     *)
(* counter mod 8192 was a multiple of 8192 div freq_k (freq_k = 2, 32, 64,     *)
(* 128, 256, 512, 2048, and BTC if non-zero else 8192); update() returns true  *)
(* exactly on the ticks at which at least one such enabled channel fires.      *)
C31_BtreqBits ==
    /\ BtRequested = bt_due
    /\ bt_op.op = "update" =>
          (bt_op.fired <=>
              /\ bt_op.ticked
              /\ BtFiring(btimer.counter, btimer.bten, btimer.btc) # {})

(* C31 witness: with BTC = 3 and channels 0 and 7 enabled, the tick to counter *)
(* 2730 = 8192 div 3 fired channel 7 alone, and update returned true.          *)
C31_Witness ==
    /\ bt_op.op = "update"
    /\ bt_op.fired
    /\ btimer.counter = 2730
    /\ btimer.btc = 3
    /\ btimer.bten = 129
    /\ bt_due = {7}
    /\ btimer.btreq = 128

(***************************************************************************)
(* The four programmable timers, updated and written through TxCL, TxCH    *)
(* and TIEN (SpecTimer)                                                    *)
(***************************************************************************)
MaxTimerOps == 4

\* instruction-cycle counts: odd, and multiples of 2, 8, 32, 1024 and 4096
TimerTicks == {7, 2, 8, 32, 1024, 4096}

TimerIndexes == {0, 3}

\* low bytes
TimerLows == {0, 255}

\* high bytes: auto-reload, clock select and the high nibble of the counter
TimerHighs == {15, 143, 223, 111, 48, 240}

TimerEnables == {0, 1, 8, 15}

\* Mcu::step: set_timer_clocks hands the instruction cycles to the timers, which update
TimerUpdate(ticks) ==
    /\ tm_op.n < MaxTimerOps
    /\ \E r \in {Timer_update(Timer_set_elapsed_ticks(timer_blocks, ticks))} :
        /\ timer_blocks' = r.tb
        /\ tm_op' = [op |-> "update", prev |-> timer_blocks, ticks |-> ticks,
                     mask |-> r.interrupts, n |-> tm_op.n + 1]
        /\ UNCHANGED flashVars
        /\ UNCHANGED bankVars
        /\ UNCHANGED mcuVars
        /\ UNCHANGED irqVars
        /\ UNCHANGED audioVars
        /\ UNCHANGED clockVars
        /\ UNCHANGED stackVars
        /\ UNCHANGED lcdVars
        /\ UNCHANGED startVars
        /\ UNCHANGED btVars
        /\ UNCHANGED dmaVars
        /\ UNCHANGED aluVars
        /\ UNCHANGED chanVars
        /\ UNCHANGED mulVars

\* a CPU write to TxCL, TxCH or TIEN
TimerWrite(reg, timer, value) ==
    /\ tm_op.n < MaxTimerOps
    /\ timer_blocks' = CASE reg = "TxCL" -> write_txcl(timer_blocks, timer, value)
                    [] reg = "TxCH" -> write_txch(timer_blocks, timer, value)
                    [] OTHER -> write_tien(timer_blocks, value)
    /\ tm_op' = [op |-> reg, prev |-> timer_blocks, ticks |-> timer_blocks.elapsed_ticks,
                 mask |-> 0, n |-> tm_op.n + 1]
    /\ UNCHANGED flashVars
    /\ UNCHANGED bankVars
    /\ UNCHANGED mcuVars
    /\ UNCHANGED irqVars
    /\ UNCHANGED audioVars
    /\ UNCHANGED clockVars
    /\ UNCHANGED stackVars
    /\ UNCHANGED lcdVars
    /\ UNCHANGED startVars
    /\ UNCHANGED btVars
    /\ UNCHANGED dmaVars
    /\ UNCHANGED aluVars
    /\ UNCHANGED chanVars
    /\ UNCHANGED mulVars

TimerInit ==
    FlashVarsInit /\ McuVarsInit /\ AudioVarsInit /\ ClockVarsInit /\ StackVarsInit /\ LcdVarsInit(None) /\ StartVarsInit /\ BtVarsInit /\ TmVarsInit /\ DmaVarsInit /\ AluVarsInit /\ ChanVarsInit /\ MulVarsInit /\ BankVarsInit("none")

TimerNext ==
    \/ \E ticks \in TimerTicks : TimerUpdate(ticks)
    \/ \E timer \in TimerIndexes, value \in TimerLows : TimerWrite("TxCL", timer, value)
    \/ \E timer \in TimerIndexes, value \in TimerHighs : TimerWrite("TxCH", timer, value)
    \/ \E value \in TimerEnables : TimerWrite("TIEN", 0, value)

SpecTimer == TimerInit /\ [][TimerNext]_vars

\* the divisor clock select 0 .. 5 selects
TimerDivisor(clock_select) ==
    CASE clock_select = 0 -> 2 [] clock_select = 1 -> 4 [] clock_select = 2 -> 8
      [] clock_select = 3 -> 32 [] clock_select = 4 -> 1024 [] OTHER -> 4096

\* timer N counts at the last update
TimerCounts(N) ==
    /\ tm_op.prev.t[N + 1].enabled
    /\ tm_op.prev.t[N + 1].clock_select <= 5
    /\ tm_op.ticks % TimerDivisor(tm_op.prev.t[N + 1].clock_select) = 0

(* C32: for each enabled timer N with clock select 0..5, an update whose       *)
(* elapsed instruction-cycle count is a multiple of the selected divisor (2,   *)
(* 4, 8, 32, 1024, 4096) increments the counter by one; when the counter was   *)
(* 0xFFF it becomes the 12-bit reload value if auto-reload is set and 0        *)
(* otherwise, and bit N of the returned mask is set. Bit N is set in no other  *)
(* case, and after any sequence of updates and TxCL/TxCH writes the counter    *)
(* and the reload value never exceed 0xFFF.                                    *)
C32_TimerOverflow ==
    /\ \A N \in 0 .. 3 :
          /\ timer_blocks.t[N + 1].counter <= 4095
          /\ timer_blocks.t[N + 1].reload_value <= 4095
    /\ tm_op.op = "update" =>
          \A N \in 0 .. 3 :
             /\ (TimerCounts(N) /\ tm_op.prev.t[N + 1].counter # 4095) =>
                   timer_blocks.t[N + 1].counter = tm_op.prev.t[N + 1].counter + 1
             /\ (TimerCounts(N) /\ tm_op.prev.t[N + 1].counter = 4095) =>
                   timer_blocks.t[N + 1].counter =
                      IF tm_op.prev.t[N + 1].auto_reload
                      THEN tm_op.prev.t[N + 1].reload_value ELSE 0
             /\ Bit(tm_op.mask, N) = 1 <=>
                   (TimerCounts(N) /\ tm_op.prev.t[N + 1].counter = 4095)
             /\ tm_op.mask < 16

(* C32 witness: timer 3, enabled with auto-reload, clock select 5 and counter  *)
(* and reload value 0xFFF, was updated at 4096 elapsed cycles: it overflowed,  *)
(* took its reload value and reported bit 3.                                   *)
C32_Witness ==
    /\ tm_op.op = "update"
    /\ tm_op.ticks = 4096
    /\ tm_op.prev.t[4] = [counter |-> 4095, reload_value |-> 4095, clock_select |-> 5,
                          enabled |-> TRUE, auto_reload |-> TRUE]
    /\ timer_blocks.t[4].counter = 4095
    /\ tm_op.mask = 8

(***************************************************************************)
(* The DMA engine, programmed through its registers and started by DCNTH   *)
(* (SpecDma)                                                               *)
(***************************************************************************)
MaxDma == 1

MaxDmaCount == 3

\* bytes written to the pointer halves: pointers 0, 0x00FE, 0x7F00 and 0x7FFE
DmaPointerLows == {254}

DmaPointerHighs == {127}

\* bank high bytes: bit 15 selects the on-chip RAM; bank 0 is the OTP
DmaBankHighs == {128}

DmaCounts == {MaxDmaCount}

\* source/destination: Continue/Continue, Reload/Fixed and Fixed/Reload
DmaModes == {0, 9, 6}

\* DCNTH: bit 7 is no bit of the count
DmaCountHighs == {0, 128}

\* the RAM cells the transfers of a behaviour can reach: the start and the end of
\* the pages the pointers are set to or carry into
DmaCells ==
    {h * 256 + l : h \in (0 .. MaxDma) \cup {127},
                   l \in (0 .. (2 * MaxDma * MaxDmaCount)) \cup {254, 255}}

\* the RAM as firmware has filled it: every cell has a value of its own
DmaFill(a) == (a * 5 + 1) % 256

DmaNow == [m |-> Now, dma |-> dma]

\* a CPU write to DPTRL .. DMOD other than DCNTH
DmaSetup(reg, val) ==
    /\ dma_op.n < MaxDma
    /\ dma' = write_dma_register(dma, reg, val)
    /\ dma_op' = [op |-> reg, n |-> dma_op.n]
    /\ UNCHANGED bankVars
    /\ UNCHANGED flashVars
    /\ UNCHANGED mcuVars
    /\ UNCHANGED irqVars
    /\ UNCHANGED audioVars
    /\ UNCHANGED clockVars
    /\ UNCHANGED stackVars
    /\ UNCHANGED lcdVars
    /\ UNCHANGED startVars
    /\ UNCHANGED btVars
    /\ UNCHANGED tmVars
    /\ UNCHANGED aluVars
    /\ UNCHANGED chanVars
    /\ UNCHANGED mulVars

\* a CPU write to DRRL
DmaBank(val) ==
    /\ dma_op.n < MaxDma
    /\ banks' = write_bank_register(banks, 52, val)
    /\ dma_op' = [op |-> "DRRL", n |-> dma_op.n]
    /\ UNCHANGED <<dma, interrupt, ram, cpu_acc, focus>>
    /\ UNCHANGED flashVars
    /\ UNCHANGED mcuVars
    /\ UNCHANGED irqVars
    /\ UNCHANGED audioVars
    /\ UNCHANGED clockVars
    /\ UNCHANGED stackVars
    /\ UNCHANGED lcdVars
    /\ UNCHANGED startVars
    /\ UNCHANGED btVars
    /\ UNCHANGED tmVars
    /\ UNCHANGED aluVars
    /\ UNCHANGED chanVars
    /\ UNCHANGED mulVars

\* a CPU write to DCNTH: the transfer runs to its end within the write
DmaStart(val) ==
    /\ dma_op.n < MaxDma
    /\ \E r \in {write_dcnth(DmaNow, val)} :
        /\ dma' = r.s.dma
        /\ banks' = r.s.m.banks
        /\ ram' = r.s.m.ram
        /\ interrupt' = r.s.m.irq
        /\ dma_op' = [op |-> "DCNTH", n |-> dma_op.n + 1, val |-> val, prev |-> DmaNow,
                      log |-> r.log]
        /\ UNCHANGED <<cpu_acc, focus>>
        /\ UNCHANGED flashVars
        /\ UNCHANGED mcuVars
        /\ UNCHANGED irqVars
        /\ UNCHANGED audioVars
        /\ UNCHANGED clockVars
        /\ UNCHANGED stackVars
        /\ UNCHANGED lcdVars
        /\ UNCHANGED startVars
        /\ UNCHANGED btVars
        /\ UNCHANGED tmVars
        /\ UNCHANGED aluVars
        /\ UNCHANGED chanVars
        /\ UNCHANGED mulVars

DmaInit ==
    /\ FlashVarsInit /\ McuVarsInit /\ AudioVarsInit /\ ClockVarsInit /\ StackVarsInit
    /\ LcdVarsInit(None) /\ StartVarsInit /\ BtVarsInit /\ TmVarsInit /\ DmaVarsInit
    /\ AluVarsInit /\ ChanVarsInit /\ MulVarsInit
    /\ banks = Bank_new
    /\ interrupt = Interrupt_new
    /\ ram = [a \in DmaCells |-> DmaFill(a)]
    /\ cpu_acc = None
    /\ focus = "none"

DmaNext ==
    \/ \E val \in DmaPointerLows : DmaSetup("DPTRL", val)
    \/ \E val \in DmaPointerHighs : DmaSetup("DPTRH", val)
    \/ \E val \in DmaBankHighs : DmaSetup("DBKRH", val)
    \/ \E val \in DmaCounts : DmaSetup("DCNTL", val)
    \/ \E val \in {0, 1} : DmaSetup("DSEL", val)
    \/ \E val \in DmaModes : DmaSetup("DMOD", val)
    \/ DmaBank(5)
    \/ \E val \in DmaCountHighs : DmaStart(val)

SpecDma == DmaInit /\ [][DmaNext]_vars

\* the count a write of val to DCNTH leaves: 15 bits
DmaCount == (dma_op.val % 128) * 256 + dma_op.prev.dma.dcnt.l

\* the pointer of transfer i (from 0), from its register before the transfer
DmaPointerAt(reg, mode, i) ==
    IF mode = "Fixed" THEN U16_u16(reg) ELSE (U16_u16(reg) + i) % 32768

\* the modes, read from the bits of DMOD: 00 Continue, 01 Reload, 1x Fixed
DmaMode(bits) == IF bits >= 2 THEN "Fixed" ELSE IF bits = 1 THEN "Reload" ELSE "Continue"

DmaSrcMode == DmaMode(dma_op.prev.dma.dmod % 4)

DmaDestMode == DmaMode((dma_op.prev.dma.dmod \div 4) % 4)

(* C33: writing DCNTH, with the resulting 15-bit count N, performs exactly N   *)
(* byte transfers in order i = 0..N-1: the byte read at CPU address            *)
(* 0x8000 | src_i with DRR = source bank is written to CPU address             *)
(* 0x8000 | dest_i with DRR = destination bank, where src_i and dest_i start   *)
(* at the pointer registers and advance by one (mod 0x8000) per transfer in    *)
(* Continue or Reload mode and stay constant in Fixed mode; N = 0 transfers    *)
(* nothing.                                                                    *)
C33_DmaTransfers ==
    dma_op.op = "DCNTH" =>
        /\ Len(dma_op.log) = DmaCount
        /\ DmaCount = 0 => ram = dma_op.prev.m.ram
        /\ \A i \in 0 .. (DmaCount - 1) :
              /\ dma_op.log[i + 1].src_drr = U16_u16(dma_op.prev.dma.src_dbkr)
              /\ dma_op.log[i + 1].src =
                    32768 + DmaPointerAt(dma_op.prev.dma.src_dptr, DmaSrcMode, i)
              /\ dma_op.log[i + 1].dest_drr = U16_u16(dma_op.prev.dma.dest_dbkr)
              /\ dma_op.log[i + 1].dest =
                    32768 + DmaPointerAt(dma_op.prev.dma.dest_dptr, DmaDestMode, i)
        /\ DmaCount > 0 =>
              /\ dma_op.log[1].byte =
                    AS_read_u8([dma_op.prev.m EXCEPT !.banks.drr = dma_op.prev.dma.src_dbkr],
                               dma_op.log[1].src)
              /\ AS_read_u8([Now EXCEPT !.banks.drr = dma_op.prev.dma.dest_dbkr],
                            dma_op.log[DmaCount].dest)
                    = IF dma_op.prev.dma.dest_dbkr.h >= 128
                      THEN dma_op.log[DmaCount].byte
                      ELSE AS_read_u8([dma_op.prev.m EXCEPT
                                          !.banks.drr = dma_op.prev.dma.dest_dbkr],
                                      dma_op.log[DmaCount].dest)

(* C33 witness: three bytes moved within the RAM from 0x7FFE to 0x00FE, both   *)
(* pointers in Continue mode: the source pointer passed from 0x7FFF to 0, and  *)
(* RAM 0x0100 holds the byte of RAM 0.                                         *)
C33_Witness ==
    /\ dma_op.op = "DCNTH"
    /\ Len(dma_op.log) >= 3
    /\ dma_op.log[3].src = 32768
    /\ dma_op.log[3].dest = 33024
    /\ dma_op.log[3].src_drr = 32768
    /\ DmaSrcMode = "Continue"
    /\ DmaDestMode = "Continue"
    /\ ram[256] = DmaFill(0)

(* C34: after a DMA transfer of N bytes, DRR holds its pre-transfer value; a   *)
(* pointer in Reload or Fixed mode holds its pre-transfer value and a pointer  *)
(* in Continue mode holds (pre-transfer value + N) mod 0x8000; the DMA bank,   *)
(* count, DSEL and DMOD registers and BRR, PRR and IRR are unchanged.          *)
C34_DmaFrame ==
    dma_op.op = "DCNTH" =>
        /\ banks.drr = dma_op.prev.m.banks.drr
        /\ U16_u16(dma.src_dptr) =
              IF DmaSrcMode = "Continue"
              THEN (U16_u16(dma_op.prev.dma.src_dptr) + DmaCount) % 32768
              ELSE U16_u16(dma_op.prev.dma.src_dptr)
        /\ U16_u16(dma.dest_dptr) =
              IF DmaDestMode = "Continue"
              THEN (U16_u16(dma_op.prev.dma.dest_dptr) + DmaCount) % 32768
              ELSE U16_u16(dma_op.prev.dma.dest_dptr)
        /\ dma.src_dbkr = dma_op.prev.dma.src_dbkr
        /\ dma.dest_dbkr = dma_op.prev.dma.dest_dbkr
        /\ U16_u16(dma.dcnt) = DmaCount
        /\ dma.dsel = dma_op.prev.dma.dsel
        /\ dma.dmod = dma_op.prev.dma.dmod
        /\ banks.brr = dma_op.prev.m.banks.brr
        /\ banks.prr = dma_op.prev.m.banks.prr
        /\ banks.irr = dma_op.prev.m.banks.irr

(* C34 witness: with DRR = 5, bytes went from the OTP to the RAM, the source in *)
(* Reload mode from 0x7FFE and the destination in Fixed mode; DRR is 5 again   *)
(* and both pointers are where they were.                                      *)
C34_Witness ==
    /\ dma_op.op = "DCNTH"
    /\ Len(dma_op.log) >= 2
    /\ Bank_reg_stored(banks.drr) = 5
    /\ dma_op.log[2].src_drr = 0
    /\ dma_op.log[2].dest_drr = 32768
    /\ dma_op.prev.dma.dmod = 9
    /\ U16_u16(dma.src_dptr) = 32766
    /\ dma_op.log[2].src = 65535

(***************************************************************************)
(* ADC and SBC stepped on a core whose accumulator and flags the firmware  *)
(* has set (SpecAlu)                                                       *)
(***************************************************************************)
MaxAlu == 1

\* accumulator and operand values: BCD digits at their ends, and the sign bits
AluBytes == {0, 1, 9, 64, 69, 70, 80, 127, 128, 144, 153, 255}

\* the opcode bytes that decode to ADC (0x61 .. 0x7D) or SBC (0xE1 .. 0xFD)
AluOpcodes == {97, 101, 105, 109, 113, 114, 117, 121, 125, 225, 229, 233, 237, 241, 242, 245, 249, 253}

\* Core::step on an ADC or SBC: the program counter, the instruction, the cycles
AluExecute(c, cyc, dec, operand, crossed) ==
    LET at == [c EXCEPT !.pc = (c.pc + encoded_length(dec)) % 65536]
        done(r) == [core |-> r.core, cycles |-> cycles_after(cyc, dec, r.cycles = 1, crossed)]
    IN  done(IF dec.opcode = "Adc" THEN adc(at, operand) ELSE sbc(at, operand))

AluStep(byte, operand, crossed) ==
    /\ alu_op.n < MaxAlu
    /\ \E dec \in {decode(byte)} :
       \E r \in {AluExecute(core, cycles, dec, operand, crossed)} :
        /\ ~instruction_panics(dec)
        /\ crossed => addressing_mode(dec) \in CrossingModes
        /\ core' = r.core
        /\ cycles' = r.cycles
        /\ alu_op' = [op |-> dec.opcode, n |-> alu_op.n + 1, dec |-> dec,
                      operand |-> operand, crossed |-> crossed, core |-> core,
                      cycles |-> cycles]
        /\ UNCHANGED <<ev, armed, asserted, dispatched, frame, steps>>
        /\ UNCHANGED <<btimer, timer_ticks, cycles_required, clk_op, aborted>>
        /\ UNCHANGED flashVars
        /\ UNCHANGED bankVars
        /\ UNCHANGED irqVars
        /\ UNCHANGED audioVars
        /\ UNCHANGED stackVars
        /\ UNCHANGED lcdVars
        /\ UNCHANGED startVars
        /\ UNCHANGED btVars
        /\ UNCHANGED tmVars
        /\ UNCHANGED dmaVars
        /\ UNCHANGED chanVars
        /\ UNCHANGED mulVars

\* the core after the firmware has loaded A and set or cleared C and D
AluInit ==
    /\ FlashVarsInit /\ AudioVarsInit /\ StackVarsInit /\ LcdVarsInit(None) /\ StartVarsInit
    /\ BtVarsInit /\ TmVarsInit /\ DmaVarsInit /\ AluVarsInit /\ ChanVarsInit /\ MulVarsInit /\ BankVarsInit("none")
    /\ ClockVarsInit
    /\ \E a \in AluBytes, carry \in BOOLEAN, decimal \in BOOLEAN :
          core = [Core_new EXCEPT !.a = a, !.flags.carry = carry, !.flags.decimal = decimal,
                                  !.flags.zero = (a = 0), !.flags.negative = is_negative(a)]
    /\ McuGhostInit

AluNext ==
    \E byte \in AluOpcodes, operand \in AluBytes, crossed \in BOOLEAN :
        AluStep(byte, operand, crossed)

SpecAlu == AluInit /\ [][AluNext]_vars

\* a byte whose nibbles are decimal digits, its value, and the BCD byte of a value
ValidBcd(b) == (b % 16) <= 9 /\ (b \div 16) <= 9

BcdValue(b) == (b \div 16) * 10 + (b % 16)

BcdEncode(v) == (v \div 10) * 16 + (v % 10)

\* a + m + c of the last step, in decimal and in binary
AluDecimalSum ==
    BcdValue(alu_op.core.a) + BcdValue(alu_op.operand) + B2N(alu_op.core.flags.carry)

AluBinarySum == alu_op.core.a + alu_op.operand + B2N(alu_op.core.flags.carry)

(* C35: for all valid BCD values of A and the operand and either carry-in,     *)
(* ADC with D = 1 leaves A equal to the BCD encoding of (a + m + c) mod 100    *)
(* and sets the carry flag exactly when a + m + c >= 100.                      *)
C35_DecimalAdc ==
    (/\ alu_op.op = "Adc"
     /\ alu_op.core.flags.decimal
     /\ ValidBcd(alu_op.core.a)
     /\ ValidBcd(alu_op.operand)) =>
        /\ core.a = BcdEncode(AluDecimalSum % 100)
        /\ core.flags.carry <=> AluDecimalSum >= 100

(* C36: for all 8-bit A, operand M and carry-in C with D = 0, ADC leaves       *)
(* A' = (A + M + C) mod 256, carry = (A + M + C >= 256), Z = (A' = 0),         *)
(* N = bit 7 of A', and V = 1 exactly when A and M have the same sign bit and  *)
(* A' has the opposite one.                                                    *)
C36_BinaryAdc ==
    (alu_op.op = "Adc" /\ ~alu_op.core.flags.decimal) =>
        /\ core.a = AluBinarySum % 256
        /\ core.flags.carry <=> AluBinarySum >= 256
        /\ core.flags.zero <=> core.a = 0
        /\ core.flags.negative <=> Bit(core.a, 7) = 1
        /\ core.flags.overflow <=>
              /\ Bit(alu_op.core.a, 7) = Bit(alu_op.operand, 7)
              /\ Bit(core.a, 7) # Bit(alu_op.core.a, 7)

(* C37: for every operand and addressing mode, executing ADC or SBC with the D *)
(* flag set accumulates exactly one more instruction cycle than the same       *)
(* instruction executed with D clear.                                          *)
C37_DecimalCycle ==
    (alu_op.op \in {"Adc", "Sbc"} /\ alu_op.core.flags.decimal) =>
        cycles - alu_op.cycles =
            AluExecute([alu_op.core EXCEPT !.flags.decimal = FALSE], alu_op.cycles,
                       alu_op.dec, alu_op.operand, alu_op.crossed).cycles
              - alu_op.cycles + 1

(***************************************************************************)
(* The sample channel: the emulator thread adds samples while the callback *)
(* thread of the host sink runs process_frame, a step of either thread at  *)
(* a time.                                                                 *)
(***************************************************************************)
MaxChanAdds == 5

MaxCallbacks == 3

MaxChanFrames == 2

\* the buffer sizes the host sink may have been configured with
ChanFrameSizes == {1, 2, 3}

\* the mixes the emulator adds
ChanSamples == {1, 2}

\* the emulator thread: audio_sender.add_sample(value)
ChanAdd(value) ==
    /\ Len(chan_log.added) < MaxChanAdds
    /\ chan' = AudioSender_add_sample(chan, value)
    /\ chan_log' = [chan_log EXCEPT !.added = Append(@, value)]
    /\ UNCHANGED flashVars
    /\ UNCHANGED bankVars
    /\ UNCHANGED mcuVars
    /\ UNCHANGED irqVars
    /\ UNCHANGED audioVars
    /\ UNCHANGED clockVars
    /\ UNCHANGED stackVars
    /\ UNCHANGED lcdVars
    /\ UNCHANGED startVars
    /\ UNCHANGED btVars
    /\ UNCHANGED tmVars
    /\ UNCHANGED dmaVars
    /\ UNCHANGED aluVars
    /\ UNCHANGED mulVars

\* the callback thread enters process_frame for an output of `frames` frames:
\* it locks the player and calls update
ChanCallback(frames) ==
    /\ chan_log.left = 0
    /\ chan_log.calls < MaxCallbacks
    /\ chan' = AudioReceiver_update(chan)
    /\ chan_log' = [chan_log EXCEPT !.left = frames, !.calls = @ + 1]
    /\ UNCHANGED flashVars
    /\ UNCHANGED bankVars
    /\ UNCHANGED mcuVars
    /\ UNCHANGED irqVars
    /\ UNCHANGED audioVars
    /\ UNCHANGED clockVars
    /\ UNCHANGED stackVars
    /\ UNCHANGED lcdVars
    /\ UNCHANGED startVars
    /\ UNCHANGED btVars
    /\ UNCHANGED tmVars
    /\ UNCHANGED dmaVars
    /\ UNCHANGED aluVars
    /\ UNCHANGED mulVars

\* the callback thread fills the next frame of the output with pop_value()
ChanPop ==
    /\ chan_log.left > 0
    /\ \E r \in {AudioReceiver_pop_value(chan)} :
          /\ chan' = r.ch
          /\ chan_log' = [chan_log EXCEPT
                             !.left = @ - 1,
                             !.popped = Append(@, [value |-> r.value,
                                                   held |-> chan.rcv.buffer = <<>>])]
    /\ UNCHANGED flashVars
    /\ UNCHANGED bankVars
    /\ UNCHANGED mcuVars
    /\ UNCHANGED irqVars
    /\ UNCHANGED audioVars
    /\ UNCHANGED clockVars
    /\ UNCHANGED stackVars
    /\ UNCHANGED lcdVars
    /\ UNCHANGED startVars
    /\ UNCHANGED btVars
    /\ UNCHANGED tmVars
    /\ UNCHANGED dmaVars
    /\ UNCHANGED aluVars
    /\ UNCHANGED mulVars

ChanInit ==
    /\ FlashVarsInit /\ McuVarsInit /\ AudioVarsInit /\ ClockVarsInit /\ StackVarsInit
    /\ LcdVarsInit(None) /\ StartVarsInit /\ BtVarsInit /\ TmVarsInit /\ DmaVarsInit
    /\ AluVarsInit /\ MulVarsInit /\ BankVarsInit("none")
    /\ \E frame_size \in ChanFrameSizes : chan = Channel_new(frame_size)
    /\ chan_log = [added |-> <<>>, popped |-> <<>>, left |-> 0, calls |-> 0]

ChanNext ==
    \/ \E value \in ChanSamples : ChanAdd(value)
    \/ \E frames \in 1 .. MaxChanFrames : ChanCallback(frames)
    \/ ChanPop

SpecChannel == ChanInit /\ [][ChanNext]_vars

\* the samples of the batches of a queue, oldest first
RECURSIVE ChanFlatten(_)
ChanFlatten(queue) == IF queue = <<>> THEN <<>> ELSE Head(queue) \o ChanFlatten(Tail(queue))

\* the values pop_value took from the buffer, in the order it returned them
ChanDelivered ==
    LET real == SelectSeq(chan_log.popped, LAMBDA p : ~p.held)
    IN  [i \in 1 .. Len(real) |-> real[i].value]

(* C39: under every interleaving of add_sample with the update and pop_value  *)
(* calls of the callback, every batch in the channel holds exactly frame_size *)
(* samples, the values pop_value took from the buffer followed by what the    *)
(* receiver buffer, the channel and the sender buffer still hold are the      *)
(* samples added, in order, and a pop_value that found the buffer empty       *)
(* returned the value returned before it, 0 at first.                         *)
C39_ChannelOrder ==
    /\ \A i \in 1 .. Len(chan.queue) : Len(chan.queue[i]) = chan.snd.frame_size
    /\ Len(chan.snd.buffer) < chan.snd.frame_size
    /\ ChanDelivered \o chan.rcv.buffer \o ChanFlatten(chan.queue) \o chan.snd.buffer
          = chan_log.added
    /\ \A i \in 1 .. Len(chan_log.popped) :
          chan_log.popped[i].held =>
             chan_log.popped[i].value
                = IF i = 1 THEN 0 ELSE chan_log.popped[i - 1].value

(* C39 witness: pop_value repeated a delivered sample on an empty buffer and *)
(* delivered the next sample in the following callback, with a batch still   *)
(* in the channel.                                                           *)
C39_Witness ==
    /\ chan.queue # <<>>
    /\ \E i \in 2 .. Len(chan_log.popped) - 1 :
          /\ chan_log.popped[i].held
          /\ ~chan_log.popped[i - 1].held
          /\ ~chan_log.popped[i + 1].held

(***************************************************************************)
(* The multiplier: the firmware writes MULH and MULL in any order; the     *)
(* build either checks the arithmetic of the multiply or lets it wrap.     *)
(***************************************************************************)
MaxMulWrites == 4

MulBytes == {0, 1, 2, 128, 255}

\* State::write_mulh; the first, third, ... write since power-on is the high byte of
\* the operand, the second, fourth, ... the low byte
MulWriteMulh(value) ==
    /\ mul_op.n < MaxMulWrites
    /\ ~mul_op.panic
    /\ mul' = write_mulh(mul, value)
    /\ mul_op' = [mul_op EXCEPT
                     !.op = "write_mulh",
                     !.high = IF mul_op.writes % 2 = 0 THEN value ELSE @,
                     !.low = IF mul_op.writes % 2 = 1 THEN value ELSE @,
                     !.writes = @ + 1,
                     !.n = @ + 1]
    /\ UNCHANGED flashVars
    /\ UNCHANGED bankVars
    /\ UNCHANGED mcuVars
    /\ UNCHANGED irqVars
    /\ UNCHANGED audioVars
    /\ UNCHANGED clockVars
    /\ UNCHANGED stackVars
    /\ UNCHANGED lcdVars
    /\ UNCHANGED startVars
    /\ UNCHANGED btVars
    /\ UNCHANGED tmVars
    /\ UNCHANGED dmaVars
    /\ UNCHANGED aluVars
    /\ UNCHANGED chanVars

\* State::write_mull
MulWriteMull(value) ==
    /\ mul_op.n < MaxMulWrites
    /\ ~mul_op.panic
    /\ \E r \in {write_mull(mul, value, mul_op.overflow_checks)} :
          /\ mul' = r.mul
          /\ mul_op' = [mul_op EXCEPT !.op = "write_mull", !.b = value,
                                      !.panic = r.panic, !.n = @ + 1]
    /\ UNCHANGED flashVars
    /\ UNCHANGED bankVars
    /\ UNCHANGED mcuVars
    /\ UNCHANGED irqVars
    /\ UNCHANGED audioVars
    /\ UNCHANGED clockVars
    /\ UNCHANGED stackVars
    /\ UNCHANGED lcdVars
    /\ UNCHANGED startVars
    /\ UNCHANGED btVars
    /\ UNCHANGED tmVars
    /\ UNCHANGED dmaVars
    /\ UNCHANGED aluVars
    /\ UNCHANGED chanVars

\* power-on, in a build with overflow checks or in one without
MulInit ==
    /\ FlashVarsInit /\ McuVarsInit /\ AudioVarsInit /\ ClockVarsInit /\ StackVarsInit
    /\ LcdVarsInit(None) /\ StartVarsInit /\ BtVarsInit /\ TmVarsInit /\ DmaVarsInit
    /\ AluVarsInit /\ ChanVarsInit /\ BankVarsInit("none")
    /\ mul = Multiplicator_new
    /\ \E overflow_checks \in BOOLEAN :
          mul_op = [op |-> "new", high |-> 0, low |-> 0, writes |-> 0, b |-> 0,
                    panic |-> FALSE, overflow_checks |-> overflow_checks, n |-> 0]

MulNext ==
    \/ \E value \in MulBytes : MulWriteMulh(value)
    \/ \E value \in MulBytes : MulWriteMull(value)

SpecMul == MulInit /\ [][MulNext]_vars

\* the product of the operand the MULH writes latched and the byte written to MULL
MulProduct == ((mul_op.high * 256 + mul_op.low) * mul_op.b) % 65536

(* C40: after a write of b to MULL that follows at least two writes to MULH,   *)
(* the write has completed and MULL and MULH read as the low and the high byte *)
(* of (operand * b) mod 65536, the operand being the last odd-numbered MULH    *)
(* write as high byte and the last even-numbered one as low byte.              *)
C40_MultiplyWraps ==
    (mul_op.op = "write_mull" /\ mul_op.writes >= 2) =>
        /\ ~mul_op.panic
        /\ read_mull(mul) = MulProduct % 256
        /\ read_mulh(mul) = MulProduct \div 256

====
